---- MODULE Spec2Model ----
(***************************************************************************)
(* Verification model of the sysmonitor agent (sk-tech/sysmonitor).        *)
(*                                                                         *)
(* Each subsystem is modelled with its own specifications:                 *)
(*   SpecPub        - NetworkPublisher (src/src/core/network_publisher.cpp)*)
(*   SpecPubBacklog - NetworkPublisher started on a queue of more than one *)
(*                    batch; SpecPubBacklogLive adds fair scheduling       *)
(*   SpecBackoff    - NetworkPublisher::CalculateBackoffDelay              *)
(*   SpecAlert      - AlertManager     (src/src/core/alert_manager.cpp)    *)
(*   SpecStore      - MetricsStorage (src/src/storage/metrics_storage.cpp) *)
(*   SpecStoreCap   - MetricsStorage started next to MAX_BUFFER_SIZE       *)
(*   SpecStoreConc  - Flush in steps beside QueryRange on the same handle  *)
(*   SpecRetention  - ApplyRetention on a database filled by earlier runs  *)
(*   SpecCollector  - MetricsCollector::UpdateMetrics writing to the store *)
(*   SpecSched      - MetricsCollector Start, Stop and CollectionLoop      *)
(*   SpecLifecycle  - Start and Stop on the collector, the publisher or    *)
(*                    the alert manager                                    *)
(*   SpecRetentionConc - ApplyRetention in steps beside writes and flushes *)
(*   SpecStoreTimed - MetricsStorage over a clock that passes the flush    *)
(*                    interval                                             *)
(*   SpecNotify     - AlertManager with notification handlers and rules    *)
(*                    that name notification channels                      *)
(*   SpecLoad       - AlertConfig::LoadFromFile, then the alert manager    *)
(*   SpecRollup     - RetentionManager::RollupToOneMinute, RollupToOneHour *)
(*   SpecPubLocks   - NetworkPublisher beside GetQueueSize and GetStats    *)
(*   SpecPubLive    - NetworkPublisher under fair scheduling               *)
(*   SpecAlertLive  - AlertManager under fair scheduling with a punctual   *)
(*                    evaluator                                            *)
(* A specification leaves the variables of the other subsystems at their   *)
(* initial values.                                                         *)
(***************************************************************************)
EXTENDS Integers, Sequences, FiniteSets, TLC

VARIABLES
    \* ---- NetworkPublisher ----
    pub_config,        \* config_ : max_queue_size, retry_max_attempts, ...
    running_,          \* std::atomic<bool> running_
    metric_queue_,     \* std::queue<PublishableMetric>
    stats_,            \* Stats
    queue_mutex_,      \* owner of queue_mutex_, or NoThread
    stats_mutex_,      \* owner of stats_mutex_, or NoThread
    qm_pc,             \* per producer thread: position inside QueueMetric
    qm_ret,            \* per producer thread: result of its last QueueMetric
    ctl_pc,            \* the thread calling Start/Stop: idle or inside join()
    w_pc,              \* publish thread: position inside PublishLoop
    w_batch,           \* PublishLoop local: batch
    w_attempt,         \* PublishLoop local: attempt
    w_success,         \* PublishLoop local: success
    w_stats0,          \* history: stats_ when the current batch was formed
    w_calls,           \* history: transport calls made for the current batch
    w_delays,          \* history: backoff sleeps made for the batch in hand, ms
    w_left,            \* history: the points that were queued when PublishLoop
                       \*   last returned and have not been drained since
    \* ---- a caller of CalculateBackoffDelay ----
    b_base,            \* config_.retry_base_delay_ms
    b_attempt,         \* argument attempt
    b_delay,           \* the value returned for b_attempt
    b_done,            \* the call for b_attempt has returned
    \* ---- clock ----
    now,               \* wall clock, in ticks
    \* ---- AlertManager ----
    alert_config,      \* config_ : global section and the system alert rules
    latest_metrics_,   \* std::map<std::string, double> latest_metrics_
    alert_states_,     \* std::map<std::string, AlertInstance> alert_states_
    a_running,         \* bool running_
    a_ctl_pc,          \* the thread calling Start/Stop: idle or inside join()
    a_pc,              \* evaluation thread: position inside EvaluationLoop
    a_start,           \* EvaluationLoop local: start
    a_snapshot,        \* EvaluationLoop local: metrics_snapshot
    a_idx,             \* EvaluationLoop local: position in GetSystemAlerts()
    events,            \* history: the AlertEvents built by FireAlert
    last_bad_push,     \* history, per rule: time of the last EvaluateMetric
                       \*   whose value did not satisfy the rule (or Never)
    last_bad_eval,     \* history, per rule: time of the last CheckAlert
                       \*   whose value did not satisfy the rule (or Never)
    \* ---- MetricsStorage ----
    store_config,      \* config_ : batch_size, flush_interval_ms
    batch_,            \* std::vector<StoredMetric> batch_
    last_flush_time_ms_,
    db_committed,      \* rows of table metrics that are committed
    db_txn,            \* the handle's open transaction, if any, and the rows
                       \*   of table metrics as seen inside it
    s_op,              \* the last operation called on the handle
    s_ret,             \* and its result
    s_writes,          \* history: number of AddToBatch calls
    written,           \* history: per identity, the last row pushed on batch_
    fb_pc,             \* the thread inside Flush: position inside FlushBatch
    q_uncommitted,     \* history: the last QueryRange returned a row that no
                       \*   committed transaction had written
    r_days,            \* argument of the last ApplyRetention
    r_ret,             \* and its result
    r_pc,              \* the thread inside ApplyRetention: its position
    r_cutoff,          \* ApplyRetention local: cutoff_ts
    r_deleted,         \* history: number of rows the last DELETE removed
    s_failed,          \* history: an AddToBatch or Flush has returned false
    \* ---- MetricsCollector ----
    c_pc,              \* collection thread: position inside UpdateMetrics
    c_cur,             \* history: identities written by the running
                       \*   UpdateMetrics
    c_done,            \* history: for each finished UpdateMetrics, the
                       \*   identities it wrote
    \* ---- MetricsCollector: Start, Stop and the collection thread ----
    c_running,         \* std::atomic<bool> running_
    c_callers,         \* the threads that call Start and Stop
    c_call_pc,         \* per calling thread: position inside Start or Stop
    c_new,             \* per calling thread: the std::thread it has constructed
    c_thread,          \* the thread collection_thread_ owns (0: not joinable)
    c_loop,            \* per collection thread: position inside CollectionLoop
    c_spawned,         \* number of collection threads constructed so far
    c_aborted,         \* std::terminate has been called
    c_metrics_mutex_,  \* owner of metrics_mutex_ (0: free)
    c_latest,          \* the thread whose snapshots latest_cpu_ and
                       \*   latest_memory_ hold (0: none yet)
    c_tick,            \* history, per collection thread: the probes that
                       \*   failed, were sampled and were handed to the
                       \*   callbacks in its current UpdateMetrics
    \* ---- lifecycle calls on the publisher and the alert manager ----
    life_worker,       \* the worker object a behaviour exercises
    ctl_log,           \* history: the last Start or Stop call made on it
    \* ---- AlertManager: notification ----
    notification_handlers_,  \* keys of std::map notification_handlers_
    n_fails,           \* the handler types whose Send returns false
    n_sent,            \* history: the Send calls made, in order
    n_file,            \* the configuration file given to LoadConfig
    \* ---- RetentionManager ----
    metrics_1m,        \* rows of table metrics_1m
    metrics_1h,        \* rows of table metrics_1h
    ru_pass,           \* history: the last rollup pass: its bucket width,
                       \*   cutoff_ts, the time it ran at and the source
                       \*   rows it read
    \* ---- a thread that calls GetQueueSize and GetStats ----
    g_pc               \* its position: idle, or inside one of the two

pubVars == <<pub_config, running_, metric_queue_, stats_, queue_mutex_,
             stats_mutex_, qm_pc, qm_ret, ctl_pc, w_pc, w_batch,
             w_attempt, w_success, w_stats0, w_calls, w_delays, w_left>>

alertVars == <<alert_config, latest_metrics_, alert_states_, a_running,
               a_ctl_pc, a_pc, a_start, a_snapshot, a_idx, events,
               last_bad_push, last_bad_eval>>

backoffVars == <<b_base, b_attempt, b_delay, b_done>>

storeVars == <<store_config, batch_, last_flush_time_ms_, db_committed, db_txn,
               s_op, s_ret, s_writes, written>>

\* state of the operations that run beside the writer, and of the objects
\* that own or feed the store handle
concVars == <<fb_pc, q_uncommitted>>
retentionVars == <<r_days, r_ret, r_pc, r_cutoff, r_deleted>>
collectorVars == <<c_pc, c_cur, c_done>>
schedVars == <<c_running, c_callers, c_call_pc, c_new, c_thread, c_loop,
               c_spawned, c_aborted, c_metrics_mutex_, c_latest, c_tick>>
lifeVars == <<life_worker, ctl_log>>
notifyVars == <<notification_handlers_, n_fails, n_sent, n_file>>
rollupVars == <<metrics_1m, metrics_1h, ru_pass>>
extCoreVars == <<concVars, retentionVars, collectorVars, schedVars, lifeVars,
                 s_failed, rollupVars, g_pc>>
storeExtVars == <<extCoreVars, notifyVars>>

vars == <<pubVars, backoffVars, now, alertVars, storeVars, storeExtVars>>

----------------------------------------------------------------------------
(* Bounds of the model *)

\* number of QueueMetric calls made in one behaviour
MaxCalls == 5
\* largest max_queue_size explored
MaxQueueCfg == 3
\* largest retry_max_attempts explored
MaxRetryCfg == 3
\* last tick of the clock
MaxTime == 6
\* clock ticks per second
TicksPerSecond == 1
\* last tick of the clock in the storage specifications
StoreMaxTime == 1
\* number of AddToBatch calls made in one behaviour
MaxWrites == 3
\* free slots of the batch at the start of SpecStoreCap
CapHeadroom == 2
\* points queued beyond one full batch at the start of SpecPubBacklog
BacklogExtra == 2
\* number of QueueMetric calls made in one behaviour of SpecPubBacklog
BacklogCalls == 2
\* largest attempt index passed to CalculateBackoffDelay
MaxBackoffAttempt == 24
\* largest retention_days explored
MaxRetentionDays == 7
\* largest hold (duration_seconds) and largest global cooldown explored
MaxHold == 2
MaxCooldown == 4
\* number of collection threads constructed in one behaviour
MaxSpawns == 2
\* last tick of the clock in SpecStoreTimed
TimedMaxTime == 2
\* number of QueueMetric calls and last tick of the clock in the lifecycle
\* behaviours
LifeCalls == 1
LifeMaxTime == 3
\* number of QueueMetric calls in SpecPubLive
LiveCalls == 3
\* last tick of the clock in SpecNotify and SpecLoad
NotifyMaxTime == 2

----------------------------------------------------------------------------
(* Shared helpers *)

NoThread == "none"

Min(a, b) == IF a < b THEN a ELSE b

Range(s) == {s[i] : i \in 1..Len(s)}

\* the first n elements of s / s without its first n elements
\* variant of Take that takes the last n elements
Take_Last(s, n) == SubSeq(s, Len(s) - n + 1, Len(s))

Take(s, n) == SubSeq(s, 1, n)
Drop(s, n) == SubSeq(s, n + 1, Len(s))

----------------------------------------------------------------------------
(* NetworkPublisher *)

Producers == {"p1", "p2"}
Worker == "worker"

\* PublishLoop line 133: "Take up to 100 metrics per batch"
BATCH_LIMIT == 100

\* CalculateBackoffDelay line 373: cap at 30 seconds
BACKOFF_CAP_MS == 30000

ZeroStats == [metrics_queued |-> 0, metrics_sent |-> 0, metrics_failed |-> 0,
              publish_attempts |-> 0, publish_successes |-> 0,
              publish_failures |-> 0, queue_overflows |-> 0]

\* AgentConfig values the publisher reads.  max_queue_size >= 1 and
\* retry_max_attempts >= 1 (agent configuration contract), so the cast
\* static_cast<size_t>(max_queue_size) keeps the value.
PubConfigs == [max_queue_size : 1..MaxQueueCfg,
               retry_max_attempts : 1..MaxRetryCfg,
               retry_base_delay_ms : {100},
               push_interval_ms : {100}]

\* AgentConfig defaults (include/sysmon/agent_config.hpp lines 34-37)
DefaultPubConfig == [max_queue_size |-> 1000, retry_max_attempts |-> 3,
                     retry_base_delay_ms |-> 1000, push_interval_ms |-> 5000]

\* NetworkPublisher::NetworkPublisher
PubInitWith(configs) ==
    /\ pub_config \in configs
    /\ running_ = FALSE
    /\ metric_queue_ = <<>>
    /\ stats_ = ZeroStats
    /\ queue_mutex_ = NoThread
    /\ stats_mutex_ = NoThread
    /\ qm_pc = [p \in Producers |-> "idle"]
    /\ qm_ret = [p \in Producers |-> "none"]
    /\ ctl_pc = "idle"
    /\ w_pc = "off"
    /\ w_batch = <<>>
    /\ w_attempt = 0
    /\ w_success = FALSE
    /\ w_stats0 = ZeroStats
    /\ w_calls = 0
    /\ w_delays = <<>>
    /\ w_left = <<>>

PubInit == PubInitWith(PubConfigs)

\* more points than one batch takes (PublishLoop line 133)
BacklogLen == BATCH_LIMIT + BacklogExtra

\* a configuration whose queue takes the backlog and one point more
BacklogConfig == [max_queue_size |-> BacklogLen + 1, retry_max_attempts |-> 2,
                  retry_base_delay_ms |-> 100, push_interval_ms |-> 100]

\* a publisher on which QueueMetric has been called BacklogLen times before
\* the first Start: the points, numbered in order of acceptance, are queued
\* and counted
PubInitBacklog ==
    /\ pub_config = BacklogConfig
    /\ running_ = FALSE
    /\ metric_queue_ = [i \in 1..BacklogLen |-> i]
    /\ stats_ = [ZeroStats EXCEPT !.metrics_queued = BacklogLen]
    /\ queue_mutex_ = NoThread
    /\ stats_mutex_ = NoThread
    /\ qm_pc = [p \in Producers |-> "idle"]
    /\ qm_ret = [p \in Producers |-> "none"]
    /\ ctl_pc = "idle"
    /\ w_pc = "off"
    /\ w_batch = <<>>
    /\ w_attempt = 0
    /\ w_success = FALSE
    /\ w_stats0 = ZeroStats
    /\ w_calls = 0
    /\ w_delays = <<>>
    /\ w_left = <<>>

\* a constructed publisher that is never used
PubIdle == PubInitWith({DefaultPubConfig})

\* the configuration of the behaviours with a reading thread
LocksPubConfig == [DefaultPubConfig EXCEPT !.max_queue_size = 2,
                                           !.retry_max_attempts = 2]

\* the configuration of the behaviours under fair scheduling
LivePubConfig == [DefaultPubConfig EXCEPT !.max_queue_size = 3,
                                          !.retry_max_attempts = 2]

\* the configuration of the lifecycle behaviours: one slot, one retry, the
\* default delays
LifePubConfig == [DefaultPubConfig EXCEPT !.max_queue_size = 1,
                                          !.retry_max_attempts = 2]

\* QueueMetric calls begun so far (finished ones are counted by stats_)
CallsBegun ==
    stats_.metrics_queued + stats_.queue_overflows
        + Cardinality({p \in Producers : qm_pc[p] # "idle"})

\* QueueMetric calls one behaviour may begin
CallBudget ==
    IF pub_config = BacklogConfig THEN BacklogLen + BacklogCalls
    ELSE IF pub_config = LifePubConfig THEN LifeCalls
    ELSE IF pub_config = LivePubConfig THEN LiveCalls
    ELSE MaxCalls

\* The metric passed to QueueMetric.  Its fields do not influence the
\* publisher; a point is identified by its position in the order of
\* acceptance (no other push can happen before the caller has counted it,
\* because the caller holds queue_mutex_ until it returns).
NextPoint == stats_.metrics_queued + 1

\* off-by-one variant of the capacity test
QueueFull_OffByOne(q) == Len(q) > pub_config.max_queue_size

\* the queue is full (line 67)
QueueFull(q) == Len(q) >= pub_config.max_queue_size

\* QueueMetric line 65: lock queue_mutex_
QM_LockQueue(p) ==
    /\ qm_pc[p] = "idle"
    /\ CallsBegun < CallBudget
    /\ queue_mutex_ = NoThread
    /\ queue_mutex_' = p
    /\ qm_pc' = [qm_pc EXCEPT ![p] = "check"]
    /\ qm_ret' = [qm_ret EXCEPT ![p] = "none"]
    /\ UNCHANGED <<pub_config, running_, metric_queue_, stats_, stats_mutex_,
                   ctl_pc, w_pc, w_batch, w_attempt, w_success, w_stats0,
                   w_calls, w_delays, w_left>>

\* variant of QM_Check that overwrites the oldest point of a full queue
QM_Check_DropOldest(p) ==
    /\ qm_pc[p] = "check"
    /\ IF QueueFull(metric_queue_)
       THEN /\ qm_pc' = [qm_pc EXCEPT ![p] = "overflow_wait"]
            /\ metric_queue_' = Append(Tail(metric_queue_), NextPoint)
       ELSE /\ metric_queue_' = Append(metric_queue_, NextPoint)
            /\ qm_pc' = [qm_pc EXCEPT ![p] = "queued_wait"]
    /\ UNCHANGED <<pub_config, running_, stats_, queue_mutex_, stats_mutex_,
                   qm_ret, ctl_pc, w_pc, w_batch, w_attempt, w_success,
                   w_stats0, w_calls, w_delays, w_left>>

\* QueueMetric lines 67-73: capacity test, push
QM_Check(p) ==
    /\ qm_pc[p] = "check"
    /\ IF QueueFull(metric_queue_)
       THEN /\ qm_pc' = [qm_pc EXCEPT ![p] = "overflow_wait"]
            /\ UNCHANGED metric_queue_
       ELSE /\ metric_queue_' = Append(metric_queue_, NextPoint)
            /\ qm_pc' = [qm_pc EXCEPT ![p] = "queued_wait"]
    /\ UNCHANGED <<pub_config, running_, stats_, queue_mutex_, stats_mutex_,
                   qm_ret, ctl_pc, w_pc, w_batch, w_attempt, w_success,
                   w_stats0, w_calls, w_delays, w_left>>

\* QueueMetric lines 68 and 75: lock stats_mutex_ (queue_mutex_ still held)
QM_LockStats(p) ==
    /\ qm_pc[p] \in {"overflow_wait", "queued_wait"}
    /\ stats_mutex_ = NoThread
    /\ stats_mutex_' = p
    /\ qm_pc' = [qm_pc EXCEPT ![p] =
                    IF qm_pc[p] = "overflow_wait" THEN "overflow" ELSE "queued"]
    /\ UNCHANGED <<pub_config, running_, metric_queue_, stats_, queue_mutex_,
                   qm_ret, ctl_pc, w_pc, w_batch, w_attempt, w_success,
                   w_stats0, w_calls, w_delays, w_left>>

\* variant of QM_Return that leaves stats_mutex_ locked when the point was
\* refused
QM_Return_OverflowKeepsLock(p) ==
    /\ qm_pc[p] \in {"overflow", "queued"}
    /\ IF qm_pc[p] = "overflow"
       THEN /\ stats_' = [stats_ EXCEPT !.queue_overflows = @ + 1]
            /\ qm_ret' = [qm_ret EXCEPT ![p] = "false"]
            /\ UNCHANGED stats_mutex_
       ELSE /\ stats_' = [stats_ EXCEPT !.metrics_queued = @ + 1]
            /\ qm_ret' = [qm_ret EXCEPT ![p] = "true"]
            /\ stats_mutex_' = NoThread
    /\ queue_mutex_' = NoThread
    /\ qm_pc' = [qm_pc EXCEPT ![p] = "idle"]
    /\ UNCHANGED <<pub_config, running_, metric_queue_, ctl_pc, w_pc,
                   w_batch, w_attempt, w_success, w_stats0, w_calls, w_delays, w_left>>

\* QueueMetric lines 69-70 and 76-78: count, return, release both locks
QM_Return(p) ==
    /\ qm_pc[p] \in {"overflow", "queued"}
    /\ IF qm_pc[p] = "overflow"
       THEN /\ stats_' = [stats_ EXCEPT !.queue_overflows = @ + 1]
            /\ qm_ret' = [qm_ret EXCEPT ![p] = "false"]
       ELSE /\ stats_' = [stats_ EXCEPT !.metrics_queued = @ + 1]
            /\ qm_ret' = [qm_ret EXCEPT ![p] = "true"]
    /\ stats_mutex_' = NoThread
    /\ queue_mutex_' = NoThread
    /\ qm_pc' = [qm_pc EXCEPT ![p] = "idle"]
    /\ UNCHANGED <<pub_config, running_, metric_queue_, ctl_pc, w_pc,
                   w_batch, w_attempt, w_success, w_stats0, w_calls, w_delays, w_left>>

\* NetworkPublisher::Start (lines 36-48)
Start ==
    /\ ctl_pc = "idle"
    /\ IF running_
       THEN UNCHANGED <<running_, w_pc>>
       ELSE /\ running_' = TRUE
            /\ w_pc' = "loop_top"
    /\ UNCHANGED <<pub_config, metric_queue_, stats_, queue_mutex_,
                   stats_mutex_, qm_pc, qm_ret, ctl_pc, w_batch,
                   w_attempt, w_success, w_stats0, w_calls, w_delays, w_left>>

\* variant of Stop that empties the queue
Stop_ClearQueue ==
    /\ ctl_pc = "idle"
    /\ metric_queue_' = <<>>
    /\ IF ~running_
       THEN UNCHANGED <<running_, ctl_pc>>
       ELSE /\ running_' = FALSE
            /\ ctl_pc' = "joining"
    /\ UNCHANGED <<pub_config, stats_, queue_mutex_,
                   stats_mutex_, qm_pc, qm_ret, w_pc, w_batch,
                   w_attempt, w_success, w_stats0, w_calls, w_delays, w_left>>

\* NetworkPublisher::Stop lines 50-58: clear the flag, enter join()
Stop ==
    /\ ctl_pc = "idle"
    /\ IF ~running_
       THEN UNCHANGED <<running_, ctl_pc>>
       ELSE /\ running_' = FALSE
            /\ ctl_pc' = "joining"
    /\ UNCHANGED <<pub_config, metric_queue_, stats_, queue_mutex_,
                   stats_mutex_, qm_pc, qm_ret, w_pc, w_batch,
                   w_attempt, w_success, w_stats0, w_calls, w_delays, w_left>>

\* NetworkPublisher::Stop lines 57-61: join() returns once PublishLoop has returned
StopJoined ==
    /\ ctl_pc = "joining"
    /\ w_pc = "exited"
    /\ w_pc' = "off"
    /\ ctl_pc' = "idle"
    /\ UNCHANGED <<pub_config, running_, metric_queue_, stats_, queue_mutex_,
                   stats_mutex_, qm_pc, qm_ret, w_batch, w_attempt,
                   w_success, w_stats0, w_calls, w_delays, w_left>>

\* variant of W_LoopTop that measures the elapsed time from the top of the
\* previous iteration, so that it never reaches the push interval
W_LoopTop_NeverDue ==
    /\ w_pc = "loop_top"
    /\ IF ~running_
       THEN /\ w_pc' = "exited"
            /\ w_left' = metric_queue_
       ELSE /\ w_pc' = "sleeping"
            /\ UNCHANGED w_left
    /\ UNCHANGED <<pub_config, running_, metric_queue_, stats_, queue_mutex_,
                   stats_mutex_, qm_pc, qm_ret, ctl_pc, w_batch,
                   w_attempt, w_success, w_stats0, w_calls, w_delays>>

\* PublishLoop lines 119-126 and 174: loop condition, elapsed-time test.
\* The steady_clock reading is an input: elapsed is below the push interval
\* or has reached it.
W_LoopTop ==
    /\ w_pc = "loop_top"
    /\ IF ~running_
       THEN /\ w_pc' = "exited"
            /\ w_left' = metric_queue_
       ELSE /\ \E elapsed \in {0, pub_config.push_interval_ms} :
                 IF elapsed >= pub_config.push_interval_ms
                 THEN w_pc' = "lock_queue"
                 ELSE w_pc' = "sleeping"
            /\ UNCHANGED w_left
    /\ UNCHANGED <<pub_config, running_, metric_queue_, stats_, queue_mutex_,
                   stats_mutex_, qm_pc, qm_ret, ctl_pc, w_batch,
                   w_attempt, w_success, w_stats0, w_calls, w_delays>>

\* PublishLoop line 130: lock queue_mutex_
W_LockQueue ==
    /\ w_pc = "lock_queue"
    /\ queue_mutex_ = NoThread
    /\ queue_mutex_' = Worker
    /\ w_pc' = "draining"
    /\ UNCHANGED <<pub_config, running_, metric_queue_, stats_, stats_mutex_,
                   qm_pc, qm_ret, ctl_pc, w_batch, w_attempt,
                   w_success, w_stats0, w_calls, w_delays, w_left>>

\* variant of the retry loop condition that allows one attempt too many
MoreAttempts_Inclusive(attempt) == attempt <= pub_config.retry_max_attempts

\* PublishLoop line 148: condition of the retry loop
MoreAttempts(attempt) == attempt < pub_config.retry_max_attempts

INT_MAX == 2147483647

RECURSIVE Pow2(_)
Pow2(n) == IF n = 0 THEN 1 ELSE 2 * Pow2(n - 1)

\* base * 2^attempt does not fit an int (base >= 1, 0 <= attempt <= 30)
ProductOverflows(base, attempt) == base > INT_MAX \div Pow2(attempt)

\* the low 32 bits of base * 2^attempt read as a two's complement int,
\* for 1 <= attempt <= 30
WrappedProduct(base, attempt) ==
    LET half == Pow2(31 - attempt)
        m == IF attempt = 1 THEN base ELSE base % Pow2(32 - attempt)
    IN  IF m < half THEN m * Pow2(attempt)
        ELSE (m - half - half) * Pow2(attempt)

\* NetworkPublisher::CalculateBackoffDelay (lines 370-374), 0 <= attempt <= 30:
\* the values the call can return.  retry_base_delay_ms * (1 << attempt) is
\* an int product; when it overflows the behaviour is undefined, and the
\* build either keeps the low 32 bits or compares the exact product with the
\* cap.
CalculateBackoffDelay(base, attempt) ==
    IF ProductOverflows(base, attempt)
    THEN {Min(WrappedProduct(base, attempt), BACKOFF_CAP_MS), BACKOFF_CAP_MS}
    ELSE {Min(base * Pow2(attempt), BACKOFF_CAP_MS)}

\* variant of the backoff condition that also sleeps after the last attempt
BackoffBeforeNext_Always(attempt) == attempt < pub_config.retry_max_attempts

\* PublishLoop line 155: a backoff sleep follows every failed attempt but the last
BackoffBeforeNext(attempt) == attempt < pub_config.retry_max_attempts - 1

\* variant of batch_size without the limit
BatchSize_All(q) == Len(q)

\* PublishLoop line 133: batch_size
BatchSize(q) == Min(BATCH_LIMIT, Len(q))

\* PublishLoop lines 133-148: move the front of the queue into batch, unlock,
\* enter the retry loop when the batch is not empty
W_Drain ==
    /\ w_pc = "draining"
    /\ LET n == BatchSize(metric_queue_) IN
         /\ w_batch' = Take(metric_queue_, n)
         /\ metric_queue_' = Drop(metric_queue_, n)
         /\ w_pc' = IF n = 0 THEN "end_iter"
                    ELSE IF MoreAttempts(0)
                         THEN "publish_lock" ELSE "after_retry"
    /\ queue_mutex_' = NoThread
    /\ w_attempt' = 0
    /\ w_success' = FALSE
    /\ w_stats0' = stats_
    /\ w_calls' = 0
    /\ w_delays' = <<>>
    /\ w_left' = Drop(w_left, Min(BatchSize(metric_queue_), Len(w_left)))
    /\ UNCHANGED <<pub_config, running_, stats_, stats_mutex_, qm_pc, qm_ret, ctl_pc>>

\* PublishBatch lines 179-182: lock stats_mutex_, count the attempt
W_PublishLock ==
    /\ w_pc = "publish_lock"
    /\ stats_mutex_ = NoThread
    /\ stats_mutex_' = Worker
    /\ stats_' = [stats_ EXCEPT !.publish_attempts = @ + 1]
    /\ w_pc' = "sending"
    /\ UNCHANGED <<pub_config, running_, metric_queue_, queue_mutex_, qm_pc,
                   qm_ret, ctl_pc, w_batch, w_attempt, w_success,
                   w_stats0, w_calls, w_delays, w_left>>

\* PublishBatch lines 184-193 (SendHTTPRequest returns, stats_mutex_ still
\* held) and PublishLoop lines 149-159 (break on success, else backoff or
\* next attempt)
W_Send ==
    /\ w_pc = "sending"
    /\ w_calls' = w_calls + 1
    /\ stats_mutex_' = NoThread
    /\ \E ok \in BOOLEAN :
          IF ok
          THEN /\ stats_' = [stats_ EXCEPT
                                !.publish_successes = @ + 1,
                                !.metrics_sent = @ + Len(w_batch)]
               /\ w_success' = TRUE
               /\ w_pc' = "after_retry"
               /\ UNCHANGED <<w_attempt, w_delays, w_left>>
          ELSE /\ stats_' = [stats_ EXCEPT !.publish_failures = @ + 1]
               /\ UNCHANGED w_success
               /\ IF BackoffBeforeNext(w_attempt)
                  THEN /\ w_pc' = "backoff"
                       /\ \E delay \in CalculateBackoffDelay(
                                 pub_config.retry_base_delay_ms, w_attempt) :
                              w_delays' = Append(w_delays, delay)
                       /\ UNCHANGED w_attempt
                  ELSE /\ w_attempt' = w_attempt + 1
                       /\ w_pc' = IF MoreAttempts(w_attempt + 1)
                                  THEN "publish_lock" ELSE "after_retry"
                       /\ UNCHANGED w_delays
    /\ UNCHANGED <<pub_config, running_, metric_queue_, queue_mutex_, qm_pc,
                   qm_ret, ctl_pc, w_batch, w_stats0, w_left>>

\* PublishLoop lines 156-157 and 148: the backoff sleep ends, ++attempt
W_Backoff ==
    /\ w_pc = "backoff"
    /\ w_attempt' = w_attempt + 1
    /\ w_pc' = IF MoreAttempts(w_attempt + 1)
               THEN "publish_lock" ELSE "after_retry"
    /\ UNCHANGED <<pub_config, running_, metric_queue_, stats_, queue_mutex_,
                   stats_mutex_, qm_pc, qm_ret, ctl_pc, w_batch,
                   w_success, w_stats0, w_calls, w_delays, w_left>>

\* variant of W_AfterRetry that drops the batch without counting it
W_AfterRetry_Uncounted ==
    /\ w_pc = "after_retry"
    /\ w_pc' = "end_iter"
    /\ UNCHANGED <<pub_config, running_, metric_queue_, stats_, queue_mutex_,
                   stats_mutex_, qm_pc, qm_ret, ctl_pc, w_batch,
                   w_attempt, w_success, w_stats0, w_calls, w_delays, w_left>>

\* PublishLoop lines 161-167: the batch is dropped and counted when no
\* attempt succeeded
W_AfterRetry ==
    /\ w_pc = "after_retry"
    /\ IF ~w_success
       THEN /\ stats_mutex_ = NoThread
            /\ stats_' = [stats_ EXCEPT !.metrics_failed = @ + Len(w_batch)]
       ELSE UNCHANGED stats_
    /\ w_pc' = "end_iter"
    /\ UNCHANGED <<pub_config, running_, metric_queue_, queue_mutex_,
                   stats_mutex_, qm_pc, qm_ret, ctl_pc, w_batch,
                   w_attempt, w_success, w_stats0, w_calls, w_delays, w_left>>

\* PublishLoop lines 168-171: batch goes out of scope, last_publish_time_ = now
W_EndIter ==
    /\ w_pc = "end_iter"
    /\ w_batch' = <<>>
    /\ w_delays' = <<>>
    /\ w_pc' = "sleeping"
    /\ UNCHANGED <<pub_config, running_, metric_queue_, stats_, queue_mutex_,
                   stats_mutex_, qm_pc, qm_ret, ctl_pc, w_attempt,
                   w_success, w_stats0, w_calls, w_left>>

\* PublishLoop line 174: the 100 ms sleep ends
W_Sleep ==
    /\ w_pc = "sleeping"
    /\ w_pc' = "loop_top"
    /\ UNCHANGED <<pub_config, running_, metric_queue_, stats_, queue_mutex_,
                   stats_mutex_, qm_pc, qm_ret, ctl_pc, w_batch,
                   w_attempt, w_success, w_stats0, w_calls, w_delays, w_left>>

Reader == "reader"

\* GetQueueSize line 109 and GetStats line 114: lock the mutex
G_Lock ==
    /\ g_pc = "idle"
    /\ \/ /\ queue_mutex_ = NoThread
          /\ queue_mutex_' = Reader
          /\ g_pc' = "size"
          /\ UNCHANGED stats_mutex_
       \/ /\ stats_mutex_ = NoThread
          /\ stats_mutex_' = Reader
          /\ g_pc' = "stats"
          /\ UNCHANGED queue_mutex_
    /\ UNCHANGED <<pub_config, running_, metric_queue_, stats_, qm_pc, qm_ret,
                   ctl_pc, w_pc, w_batch, w_attempt, w_success, w_stats0,
                   w_calls, w_delays, w_left>>

\* GetQueueSize line 110 and GetStats line 115: return, release the mutex
G_Return ==
    /\ g_pc \in {"size", "stats"}
    /\ IF g_pc = "size"
       THEN queue_mutex_' = NoThread /\ UNCHANGED stats_mutex_
       ELSE stats_mutex_' = NoThread /\ UNCHANGED queue_mutex_
    /\ g_pc' = "idle"
    /\ UNCHANGED <<pub_config, running_, metric_queue_, stats_, qm_pc, qm_ret,
                   ctl_pc, w_pc, w_batch, w_attempt, w_success, w_stats0,
                   w_calls, w_delays, w_left>>

\* NetworkPublisher::GetQueueSize and NetworkPublisher::GetStats
GetQueueSizeOrStats == G_Lock \/ G_Return

QueueMetric == \E p \in Producers :
    QM_LockQueue(p) \/ QM_Check(p) \/ QM_LockStats(p) \/ QM_Return(p)

PublishLoop ==
    \/ W_LoopTop \/ W_LockQueue \/ W_Drain \/ W_PublishLock \/ W_Send
    \/ W_Backoff \/ W_AfterRetry \/ W_EndIter \/ W_Sleep

\* retry_base_delay_ms values explored
BackoffBases == {1, 100, 1000, BACKOFF_CAP_MS, Pow2(30), INT_MAX}

\* a caller about to compute the delay of attempt 0
BackoffInit ==
    /\ b_base \in BackoffBases
    /\ b_attempt = 0
    /\ b_delay = 0
    /\ b_done = FALSE

\* no caller
BackoffIdle ==
    /\ b_base = DefaultPubConfig.retry_base_delay_ms
    /\ b_attempt = 0
    /\ b_delay = 0
    /\ b_done = FALSE

\* int delay = CalculateBackoffDelay(attempt)  (PublishLoop line 156)
BackoffCall ==
    /\ ~b_done
    /\ b_delay' \in CalculateBackoffDelay(b_base, b_attempt)
    /\ b_done' = TRUE
    /\ UNCHANGED <<b_base, b_attempt>>

\* ++attempt  (PublishLoop line 148)
BackoffNextAttempt ==
    /\ b_done
    /\ b_attempt < MaxBackoffAttempt
    /\ b_attempt' = b_attempt + 1
    /\ b_done' = FALSE
    /\ UNCHANGED <<b_base, b_delay>>

BackoffNext ==
    /\ BackoffCall \/ BackoffNextAttempt
    /\ UNCHANGED <<pubVars, now, alertVars, storeVars, storeExtVars>>

\* Scheduling: every thread that can take a step is eventually given one,
\* and the steady clock advances, so the elapsed time read by PublishLoop
\* reaches push_interval_ms again and again.
PubFairness ==
    /\ WF_vars(QueueMetric /\ UNCHANGED <<backoffVars, now, alertVars,
                                          storeVars, storeExtVars>>)
    /\ WF_vars(PublishLoop /\ UNCHANGED <<backoffVars, now, alertVars,
                                          storeVars, storeExtVars>>)
    /\ WF_vars(StopJoined /\ UNCHANGED <<backoffVars, now, alertVars,
                                         storeVars, storeExtVars>>)
    /\ SF_vars(W_LoopTop /\ w_pc' = "lock_queue"
                         /\ UNCHANGED <<backoffVars, now, alertVars,
                                        storeVars, storeExtVars>>)

PubNext ==
    /\ QueueMetric \/ Start \/ Stop \/ StopJoined \/ PublishLoop
    /\ UNCHANGED <<backoffVars, now, alertVars, storeVars, storeExtVars>>

\* the publisher with a thread that reads the queue size and the counters
PubLocksNext ==
    \/ PubNext
    \/ /\ GetQueueSizeOrStats
       /\ UNCHANGED <<backoffVars, now, alertVars, storeVars, concVars,
                      retentionVars, collectorVars, schedVars, lifeVars,
                      s_failed, notifyVars, rollupVars>>


----------------------------------------------------------------------------
(* NetworkPublisher: properties *)

\* the points that have been accepted and not yet sent or dropped, the batch
\* in hand first
Pending == w_batch \o metric_queue_

\* s is a prefix of t
IsPrefix(s, t) == Len(s) <= Len(t) /\ SubSeq(t, 1, Len(s)) = s

\* C15: points leave the queue in the order they were enqueued: a batch is
\* the min(100, queue length) oldest queued points in insertion order, and
\* no point is placed in a later batch than a point enqueued after it.
\* Points are numbered in the order of their acceptance.
C15_BatchesFifo ==
    [][/\ \A i \in 1..(Len(Pending') - 1) : Pending'[i + 1] = Pending'[i] + 1
       /\ (w_batch = <<>> /\ w_batch' # <<>>) =>
              /\ w_batch' \o metric_queue_' = metric_queue_
              /\ Len(w_batch') = IF Len(metric_queue_) < 100
                                 THEN Len(metric_queue_) ELSE 100
       /\ ~(w_batch = <<>> /\ w_batch' # <<>>) =>
              /\ w_batch' \in {w_batch, <<>>}
              /\ IsPrefix(metric_queue_, metric_queue_')]_vars

\* the second batch has been formed from the points left behind by a full
\* first batch and a point enqueued since
C15_Witness ==
    /\ Len(w_batch) > BacklogExtra
    /\ w_batch[1] = 101
    /\ stats_.publish_attempts >= 2

\* C16: for every attempt index a and every retry_base_delay_ms >= 1 of type
\* int, CalculateBackoffDelay(a) = min(retry_base_delay_ms * 2^a, 30000); so
\* it is never negative and never above 30000.
C16_BackoffFormula ==
    b_done =>
        b_delay = IF b_base > 30000 \div Pow2(b_attempt)
                  THEN 30000 ELSE b_base * Pow2(b_attempt)

\* the retry loop has ended for a batch that retry_max_attempts = 3 and
\* retry_base_delay_ms = 100 were applied to and every transport call failed
ThreeFailures ==
    /\ pub_config.retry_max_attempts = 3
    /\ pub_config.retry_base_delay_ms = 100
    /\ w_pc = "end_iter"
    /\ w_batch # <<>>
    /\ ~w_success

\* C17 as stated: with retry_max_attempts = 3, retry_base_delay_ms = 100 and
\* a transport that always fails, the backoff waits of one batch are 100 ms,
\* 200 ms and 400 ms and the batch is dropped after the third failed attempt.
C17_Original_ThreeWaits ==
    ThreeFailures =>
        /\ w_delays = <<100, 200, 400>>
        /\ w_calls = 3
        /\ stats_.metrics_failed = w_stats0.metrics_failed + Len(w_batch)

\* C17: with retry_max_attempts = 3, retry_base_delay_ms = 100 and a
\* transport that always fails, the backoff waits of one batch are 100 ms
\* and then 200 ms, one between consecutive attempts and none after the
\* last, and the batch is dropped after the third failed attempt.
C17_TwoWaitsThenDrop ==
    ThreeFailures =>
        /\ w_delays = <<100, 200>>
        /\ w_calls = 3
        /\ stats_.metrics_failed = w_stats0.metrics_failed + Len(w_batch)

C17_Witness == ThreeFailures /\ Len(w_batch) >= 2

\* C20: Stop removes no point from the queue; the points queued when the
\* worker exits stay queued in the same order, and after a subsequent Start
\* the worker drains them.
C20_StopKeepsQueue ==
    /\ [][((running_ /\ ~running_') \/ (ctl_pc = "joining" /\ ctl_pc' = "idle"))
             => metric_queue_' = metric_queue_]_vars
    /\ [](w_pc \in {"exited", "off"} => IsPrefix(w_left, metric_queue_))
    /\ ((w_left # <<>> /\ running_) ~> (w_left = <<>> \/ ~running_))

\* the worker was stopped with more than a batch queued, has been started
\* again and has formed a batch of the points that were left
C20_Witness ==
    /\ running_
    /\ w_left # <<>>
    /\ w_batch # <<>>
    /\ w_batch[Len(w_batch)] + 1 = w_left[1]

\* C14: in every reachable state publish_successes + publish_failures <=
\* publish_attempts and metrics_sent <= publish_successes * 100.
C14_StatsConsistent ==
    /\ stats_.publish_successes + stats_.publish_failures
           <= stats_.publish_attempts
    /\ stats_.metrics_sent <= stats_.publish_successes * 100

\* a full batch has been sent after a failed attempt and a further attempt
\* is counted but not yet decided
C14_Witness ==
    /\ stats_.publish_successes = 1
    /\ stats_.metrics_sent = 100
    /\ stats_.publish_failures >= 1
    /\ stats_.publish_attempts > stats_.publish_successes + stats_.publish_failures

\* the worker holds a batch that is counted neither in metrics_sent nor in
\* metrics_failed yet
BatchInFlight ==
    \/ w_pc \in {"publish_lock", "sending", "backoff"}
    \/ w_pc = "after_retry" /\ ~w_success

\* a QueueMetric call has pushed its point and not yet counted it; it holds
\* queue_mutex_ until it has
PushUncounted == \E p \in Producers : qm_pc[p] \in {"queued_wait", "queued"}

LockUsers == Producers \cup {Worker, Reader}

\* the thread is inside an operation that uses the mutexes
InsideOperation(t) ==
    IF t \in Producers THEN qm_pc[t] # "idle"
    ELSE IF t = Worker THEN w_pc \notin {"off", "exited"}
    ELSE g_pc # "idle"

\* the next step of the thread is enabled
CanStep(t) ==
    IF t \in Producers
    THEN ENABLED (QM_Check(t) \/ QM_LockStats(t) \/ QM_Return(t))
    ELSE IF t = Worker THEN ENABLED PublishLoop
    ELSE ENABLED G_Return

\* the thread that holds the mutex the blocked thread t is waiting for
BlockedOn(t) ==
    IF t \in Producers THEN stats_mutex_
    ELSE IF t = Worker /\ w_pc = "lock_queue" THEN queue_mutex_
    ELSE IF t = Worker THEN stats_mutex_
    ELSE NoThread

\* the thread can take a step, or waits for a mutex whose holder will
\* release it: the chain of holders, followed for n links, ends at a thread
\* that can take a step
RECURSIVE WillRun(_, _)
WillRun(t, n) ==
    \/ CanStep(t)
    \/ /\ n > 0
       /\ BlockedOn(t) \notin {NoThread, t}
       /\ WillRun(BlockedOn(t), n - 1)

\* C36: the Network Publisher cannot deadlock: under any interleaving of
\* QueueMetric, GetQueueSize, GetStats, Stop and the publish worker, no
\* thread waits forever for queue_mutex_ or stats_mutex_, provided every
\* transport call returns.
C36_NoDeadlock ==
    \A t \in LockUsers :
        InsideOperation(t) => WillRun(t, Cardinality(LockUsers))

\* the longest chain of waiting: the worker waits for queue_mutex_, held
\* by a QueueMetric call that waits for stats_mutex_, held by GetStats,
\* while Stop waits for the worker
C36_Witness ==
    /\ w_pc = "lock_queue"
    /\ queue_mutex_ \in Producers
    /\ qm_pc[queue_mutex_] = "queued_wait"
    /\ stats_mutex_ = Reader
    /\ ctl_pc = "joining"

\* point n has left the queue and is counted: points are numbered in the
\* order of acceptance and batches are taken and counted in that order
Counted(n) ==
    /\ n \notin Range(metric_queue_)
    /\ stats_.metrics_sent + stats_.metrics_failed >= n

\* C37: while the publish worker keeps running and every transport call
\* returns, each point accepted into the queue is eventually removed from
\* it and counted in metrics_sent or in metrics_failed; no accepted point
\* stays queued forever.
C37_AcceptedEventuallyCounted ==
    \A n \in 1..LiveCalls :
        (n \in Range(metric_queue_)) ~> (Counted(n) \/ ~running_)

\* a batch has been dropped and counted while the worker runs on and
\* further points wait
C37_Witness ==
    /\ running_
    /\ stats_.metrics_failed > 0
    /\ Counted(1)
    /\ metric_queue_ # <<>>

\* a step taken while the running flag stays cleared
AfterStop == ~running_ /\ ~running_'

\* C38: once Stop has cleared the Network Publisher's running flag, the
\* worker starts no new transport attempt and no new backoff wait: it
\* finishes at most the transport call already in progress and then exits.
C38_NoNewAttemptAfterStop ==
    [][AfterStop =>
          /\ w_pc' = "sending" => w_pc = "sending"
          /\ w_pc' = "backoff" => w_pc = "backoff"]_vars

\* once the flag is cleared the worker takes no further batch from the
\* queue: at the top of the loop it leaves
C38_NoNewBatchAfterStop ==
    [][AfterStop =>
          /\ w_pc = "loop_top" => w_pc' \in {"loop_top", "exited"}
          /\ w_pc' = "draining" => w_pc \in {"lock_queue", "draining"}]_vars

\* C1: in every reachable state, under any interleaving of QueueMetric calls
\* and batch draining, the queue holds at most max_queue_size points.
C1_QueueBounded == Len(metric_queue_) <= pub_config.max_queue_size

\* C1 witness: the queue is at capacity again after the worker has drained a
\* batch, while another QueueMetric call is in progress.
C1_Witness ==
    /\ Len(metric_queue_) = pub_config.max_queue_size
    /\ stats_.metrics_sent + stats_.metrics_failed > 0
    /\ \E p \in Producers : qm_pc[p] # "idle"

\* a QueueMetric call of p that found, or is about to find, the queue full
Refusing(p) ==
    \/ qm_pc[p] = "check" /\ Len(metric_queue_) >= pub_config.max_queue_size
    \/ qm_pc[p] \in {"overflow_wait", "overflow"}

\* nothing has been taken from the queue so far
NothingDrained ==
    /\ w_batch = <<>>
    /\ stats_.metrics_sent = 0
    /\ stats_.metrics_failed = 0

\* every step taken while a call is being refused leaves the queue and
\* metrics_queued alone; the step that returns from the call returns false
\* and adds exactly one to queue_overflows, no other step changes it
C2_RefusalStep ==
    \A p \in Producers :
        Refusing(p) =>
            /\ metric_queue_' = metric_queue_
            /\ stats_'.metrics_queued = stats_.metrics_queued
            /\ IF qm_pc'[p] = "idle"
               THEN /\ qm_ret'[p] = "false"
                    /\ stats_'.queue_overflows = stats_.queue_overflows + 1
               ELSE /\ Refusing(p)'
                    /\ stats_'.queue_overflows = stats_.queue_overflows

\* n completed calls into an initially empty queue with no drain in between:
\* min(n, max_queue_size) points queued, the remaining calls refused
C2_NoDrainOutcome ==
    (NothingDrained /\ \A p \in Producers : qm_pc[p] = "idle") =>
        LET n == stats_.metrics_queued + stats_.queue_overflows
            k == Min(n, pub_config.max_queue_size) IN
          /\ stats_.metrics_queued = k
          /\ stats_.queue_overflows = n - k
          /\ Len(metric_queue_) = k

\* C2: QueueMetric on a full queue returns false, leaves the queue and
\* metrics_queued unchanged and adds exactly one to queue_overflows; hence
\* 5 calls into an empty queue of capacity 3 without a drain end with
\* metrics_queued = 3, queue_overflows = 2 and queue length 3.
C2_RefusalOnFullQueue == [][C2_RefusalStep]_vars /\ []C2_NoDrainOutcome

\* C2 witness: the scenario of 5 calls against capacity 3, the last refused
C2_Witness ==
    /\ pub_config.max_queue_size = 3
    /\ NothingDrained
    /\ \A p \in Producers : qm_pc[p] = "idle"
    /\ stats_.metrics_queued = 3
    /\ stats_.queue_overflows = 2
    /\ Len(metric_queue_) = 3
    /\ \E p \in Producers : qm_ret[p] = "false"

\* the worker has finished the retry loop for a batch and no call succeeded
BatchDropped == w_pc = "end_iter" /\ w_batch # <<>> /\ ~w_success

\* C3: when every transport call for a batch fails, the worker makes exactly
\* retry_max_attempts transport calls and drops the batch: metrics_failed
\* grows by the batch size, publish_attempts and publish_failures by
\* retry_max_attempts, publish_successes and metrics_sent do not change, and
\* no point of the batch is back on the queue.
C3_RetryExhaustionDropsBatch ==
    BatchDropped =>
        /\ w_calls = pub_config.retry_max_attempts
        /\ stats_.metrics_failed = w_stats0.metrics_failed + Len(w_batch)
        /\ stats_.publish_attempts =
              w_stats0.publish_attempts + pub_config.retry_max_attempts
        /\ stats_.publish_failures =
              w_stats0.publish_failures + pub_config.retry_max_attempts
        /\ stats_.publish_successes = w_stats0.publish_successes
        /\ stats_.metrics_sent = w_stats0.metrics_sent
        /\ Range(w_batch) \cap Range(metric_queue_) = {}

\* C3 witness: a batch of two points dropped after three failed calls, with
\* points accepted meanwhile waiting in the queue
C3_Witness ==
    /\ BatchDropped
    /\ pub_config.retry_max_attempts = 3
    /\ Len(w_batch) = 2
    /\ metric_queue_ # <<>>

----------------------------------------------------------------------------
(* Clock *)

\* system_clock / steady_clock advance; the model assumes they never step back
TickUpTo(limit) ==
    /\ now < limit
    /\ now' = now + 1

Tick == TickUpTo(MaxTime)

\* std::chrono::duration_cast<std::chrono::seconds> of a non-negative duration
DurationSeconds(ticks) == ticks \div TicksPerSecond

----------------------------------------------------------------------------
(* AlertManager *)

\* doubles are modelled as integers in units of 1/ValueScale
ValueScale == 10000

\* CheckAlert line 158: the EQUALS tolerance 0.001, in units of 1/ValueScale
EQUALS_TOLERANCE == 10

\* the observed values 50.0 and 90.0
Values == {50 * ValueScale, 90 * ValueScale}

\* rule thresholds: 80.0 for ABOVE and BELOW; 89.9995 for EQUALS, which 90.0
\* matches within the tolerance without being equal to it
Threshold(c) == IF c = "EQUALS" THEN 90 * ValueScale - 5 ELSE 80 * ValueScale

Metric == "cpu.total_usage"
\* the metric has no entry in the latest-values map
NoValue == -1
\* the rule has no entry in alert_states_
NoInstance == [state |-> "ABSENT", breach_start |-> 0, last_fired |-> 0,
               current_value |-> 0]
Never == -1

Abs(x) == IF x < 0 THEN -x ELSE x

\* a configuration with one rule on Metric, as AlertConfig::LoadFromFile
\* leaves it: the rule's notification_channels is empty
OneRuleConfig(c, h, cd) ==
    [check_interval |-> 1, cooldown |-> cd, enabled |-> TRUE,
     rules |-> << [name |-> "rule1", metric |-> Metric, condition |-> c,
                   threshold |-> Threshold(c), duration_seconds |-> h,
                   notification_channels |-> <<>>] >>]

\* the configurations explored: ABOVE with every hold and cooldown of the
\* model, BELOW and EQUALS with one hold and cooldown each
AlertConfigs ==
    { OneRuleConfig("ABOVE", h, cd) : h \in {0, MaxHold}, cd \in {0, 2, MaxCooldown} }
        \cup { OneRuleConfig("BELOW", 1, 2), OneRuleConfig("EQUALS", 0, 2) }

\* the names of the rules of config_.GetSystemAlerts()
RuleNames == {alert_config.rules[i].name : i \in 1..Len(alert_config.rules)}

\* AlertManager::AlertManager followed by LoadConfig
AlertLoaded(configs) ==
    /\ alert_config \in configs
    /\ latest_metrics_ = NoValue
    /\ alert_states_ = [n \in RuleNames |-> NoInstance]
    /\ a_running = FALSE
    /\ a_ctl_pc = "idle"
    /\ a_pc = "off"
    /\ a_start = 0
    /\ a_snapshot = NoValue
    /\ a_idx = 0
    /\ events = <<>>
    /\ last_bad_push = [n \in RuleNames |-> Never]
    /\ last_bad_eval = [n \in RuleNames |-> Never]
    /\ n_sent = <<>>

\* the same, with no notification handler registered
AlertInitWith(configs) ==
    /\ AlertLoaded(configs)
    /\ notification_handlers_ = {}
    /\ n_fails = {}
    /\ n_file = <<>>

AlertInit == AlertInitWith(AlertConfigs)

\* AlertConfig::LoadFromFile defaults (alert_config.cpp lines 66-68), one rule
DefaultAlertConfig ==
    [OneRuleConfig("ABOVE", 0, 300) EXCEPT !.check_interval = 5]

\* variant of the comparator in which EQUALS demands exact equality
ThresholdBreached_ExactEquals(rule, value) ==
    CASE rule.condition = "ABOVE"  -> value > rule.threshold
      [] rule.condition = "BELOW"  -> value < rule.threshold
      [] rule.condition = "EQUALS" -> value = rule.threshold

\* CheckAlert lines 149-160: the comparator
ThresholdBreached(rule, value) ==
    CASE rule.condition = "ABOVE"  -> value > rule.threshold
      [] rule.condition = "BELOW"  -> value < rule.threshold
      [] rule.condition = "EQUALS" -> Abs(value - rule.threshold) < EQUALS_TOLERANCE

\* std::map::operator[] on a missing key: a value-initialised AlertInstance
DefaultInstance == [state |-> "NORMAL", breach_start |-> 0, last_fired |-> 0,
                    current_value |-> 0]

\* variant of IsInCooldown that never reports a cooldown
IsInCooldown_Never(instance, t) == FALSE

\* AlertManager::IsInCooldown (lines 196-206)
IsInCooldown(instance, t) ==
    IF instance.state # "FIRING" /\ instance.state # "COOLDOWN"
    THEN FALSE
    ELSE DurationSeconds(t - instance.last_fired) < alert_config.cooldown

\* variant of the hold test that fires one second early
HoldElapsed_Early(rule, instance, t) ==
    DurationSeconds(t - instance.breach_start) + 1 >= rule.duration_seconds

\* CheckAlert lines 170-173: the breach has lasted for the hold duration
HoldElapsed(rule, instance, t) ==
    DurationSeconds(t - instance.breach_start) >= rule.duration_seconds

\* variant of CheckAlert that marks a fired rule as COOLDOWN when it is
\* evaluated during the cooldown
CheckAlert_MarksCooldown(rule, found, current_value, t) ==
    LET instance == [(IF found = NoInstance THEN DefaultInstance ELSE found)
                        EXCEPT !.current_value = current_value]
    IN  IF IsInCooldown(instance, t)
        THEN [instance |-> [instance EXCEPT !.state = "COOLDOWN"],
              fired |-> FALSE]
        ELSE IF ThresholdBreached(rule, current_value)
        THEN CASE instance.state = "NORMAL" ->
                    [instance |-> [instance EXCEPT !.state = "BREACHED",
                                                   !.breach_start = t],
                     fired |-> FALSE]
               [] instance.state = "BREACHED" /\ HoldElapsed(rule, instance, t) ->
                    [instance |-> [instance EXCEPT !.state = "FIRING",
                                                   !.last_fired = t],
                     fired |-> TRUE]
               [] OTHER -> [instance |-> instance, fired |-> FALSE]
        ELSE [instance |-> [instance EXCEPT !.state = "NORMAL"],
              fired |-> FALSE]

\* AlertManager::CheckAlert (lines 136-188) applied to the instance found or
\* created at line 140; the result is the instance afterwards and whether
\* FireAlert was called
CheckAlert(rule, found, current_value, t) ==
    LET instance == [(IF found = NoInstance THEN DefaultInstance ELSE found)
                        EXCEPT !.current_value = current_value]
    IN  IF IsInCooldown(instance, t)
        THEN [instance |-> instance, fired |-> FALSE]
        ELSE IF ThresholdBreached(rule, current_value)
        THEN CASE instance.state = "NORMAL" ->
                    [instance |-> [instance EXCEPT !.state = "BREACHED",
                                                   !.breach_start = t],
                     fired |-> FALSE]
               [] instance.state = "BREACHED" /\ HoldElapsed(rule, instance, t) ->
                    [instance |-> [instance EXCEPT !.state = "FIRING",
                                                   !.last_fired = t],
                     fired |-> TRUE]
               [] OTHER -> [instance |-> instance, fired |-> FALSE]
        ELSE [instance |-> [instance EXCEPT !.state = "NORMAL"],
              fired |-> FALSE]

\* variant of SendNotifications that gives up at the first failed Send
RECURSIVE SendNotifications_StopOnFailure(_, _)
SendNotifications_StopOnFailure(event, channels) ==
    IF channels = <<>>
    THEN <<>>
    ELSE LET channel_name == Head(channels)
         IN  IF channel_name \in notification_handlers_
             THEN IF channel_name \in n_fails
                  THEN << [type |-> channel_name, event |-> event,
                           success |-> FALSE] >>
                  ELSE << [type |-> channel_name, event |-> event,
                           success |-> TRUE] >>
                         \o SendNotifications_StopOnFailure(event, Tail(channels))
             ELSE SendNotifications_StopOnFailure(event, Tail(channels))

\* AlertManager::SendNotifications (lines 233-243) over the rest of
\* rule.notification_channels: the Send calls it makes, in order
RECURSIVE SendNotifications(_, _)
SendNotifications(event, channels) ==
    IF channels = <<>>
    THEN <<>>
    ELSE LET channel_name == Head(channels)
         IN  IF channel_name \in notification_handlers_
             THEN << [type |-> channel_name, event |-> event,
                      success |-> channel_name \notin n_fails] >>
                    \o SendNotifications(event, Tail(channels))
             ELSE SendNotifications(event, Tail(channels))

\* AlertManager::FireAlert (lines 208-231): the event built for the rule
FireAlert(rule, current_value, t) ==
    [alert_name |-> rule.name, metric |-> rule.metric,
     current_value |-> current_value, timestamp |-> t]

\* AlertManager::EvaluateMetric (lines 67-70)
EvaluateMetric ==
    /\ \E v \in Values :
          /\ latest_metrics_' = v
          /\ last_bad_push' = [n \in RuleNames |->
                LET rule == CHOOSE r \in Range(alert_config.rules) : r.name = n
                IN  IF ~ThresholdBreached(rule, v) THEN now ELSE last_bad_push[n]]
    /\ UNCHANGED <<now, alert_config, alert_states_, a_running, a_ctl_pc, a_pc,
                   a_start, a_snapshot, a_idx, events, last_bad_eval>>

\* AlertManager::Start (lines 40-51)
AlertStart ==
    /\ a_ctl_pc = "idle"
    /\ IF a_running \/ ~alert_config.enabled
       THEN UNCHANGED <<a_running, a_pc>>
       ELSE /\ a_running' = TRUE
            /\ a_pc' = "loop_top"
    /\ UNCHANGED <<now, alert_config, latest_metrics_, alert_states_, a_ctl_pc,
                   a_start, a_snapshot, a_idx, events, last_bad_push,
                   last_bad_eval>>

\* bool running_ (alert_manager.hpp line 95) is not atomic: while Stop, which
\* has written false, waits in join(), the read of line 109 races with that
\* write and may still give true
A_RunningSeen == {a_running} \cup (IF a_ctl_pc = "joining" THEN {TRUE} ELSE {})

\* variant of A_LoopTop that moves the observations out of the map instead of
\* copying them
A_LoopTop_Consume ==
    /\ a_pc = "loop_top"
    /\ TRUE \in A_RunningSeen
    /\ a_start' = now
    /\ a_snapshot' = latest_metrics_
    /\ latest_metrics_' = NoValue
    /\ a_idx' = 1
    /\ a_pc' = "check"
    /\ UNCHANGED <<now, alert_config, alert_states_, a_running,
                   a_ctl_pc, events, last_bad_push, last_bad_eval>>

\* EvaluationLoop lines 109-117: loop condition, start, copy of the map
A_LoopTop ==
    /\ a_pc = "loop_top"
    /\ TRUE \in A_RunningSeen
    /\ a_start' = now
    /\ a_snapshot' = latest_metrics_
    /\ a_idx' = 1
    /\ a_pc' = "check"
    /\ UNCHANGED <<now, alert_config, latest_metrics_, alert_states_, a_running,
                   a_ctl_pc, events, last_bad_push, last_bad_eval>>

\* EvaluationLoop lines 120-125: one iteration of the rule loop
A_CheckRule ==
    /\ a_pc = "check"
    /\ a_idx <= Len(alert_config.rules)
    /\ LET rule == alert_config.rules[a_idx] IN
         IF rule.metric = Metric /\ a_snapshot # NoValue
         THEN LET r == CheckAlert(rule, alert_states_[rule.name], a_snapshot, now)
                  event == FireAlert(rule, a_snapshot, now)
              IN  /\ alert_states_' = [alert_states_ EXCEPT ![rule.name] = r.instance]
                  /\ events' = IF r.fired THEN Append(events, event) ELSE events
                  /\ n_sent' = IF r.fired
                               THEN n_sent \o SendNotifications(event,
                                                 rule.notification_channels)
                               ELSE n_sent
                  /\ last_bad_eval' = IF ThresholdBreached(rule, a_snapshot)
                                      THEN last_bad_eval
                                      ELSE [last_bad_eval EXCEPT ![rule.name] = now]
         ELSE UNCHANGED <<alert_states_, events, last_bad_eval, n_sent>>
    /\ a_idx' = a_idx + 1
    /\ UNCHANGED <<now, alert_config, latest_metrics_, a_running, a_ctl_pc, a_pc,
                   a_start, a_snapshot, last_bad_push>>

\* EvaluationLoop lines 127-132: the rule loop is over; sleep for the rest of
\* the check interval
A_Sleep ==
    /\ a_pc = "check"
    /\ a_idx > Len(alert_config.rules)
    /\ now - a_start >= alert_config.check_interval * TicksPerSecond
    /\ a_pc' = "loop_top"
    /\ UNCHANGED <<now, alert_config, latest_metrics_, alert_states_, a_running,
                   a_ctl_pc, a_start, a_snapshot, a_idx, events, last_bad_push,
                   last_bad_eval>>

EvaluationLoop == A_LoopTop \/ A_CheckRule \/ A_Sleep

\* AlertManager::Stop lines 53-57: clear the flag, enter join()
AlertStop ==
    /\ a_ctl_pc = "idle"
    /\ IF ~a_running
       THEN UNCHANGED <<a_running, a_ctl_pc>>
       ELSE /\ a_running' = FALSE
            /\ a_ctl_pc' = "joining"
    /\ UNCHANGED <<now, alert_config, latest_metrics_, alert_states_, a_pc,
                   a_start, a_snapshot, a_idx, events, last_bad_push,
                   last_bad_eval>>

\* AlertManager::Stop lines 57-60: join() returns once EvaluationLoop has
\* returned
AlertStopJoined ==
    /\ a_ctl_pc = "joining"
    /\ a_pc = "exited"
    /\ a_pc' = "off"
    /\ a_ctl_pc' = "idle"
    /\ UNCHANGED <<now, alert_config, latest_metrics_, alert_states_, a_running,
                   a_start, a_snapshot, a_idx, events, last_bad_push,
                   last_bad_eval>>

\* EvaluationLoop line 109: the loop condition is read as false
A_LoopExit ==
    /\ a_pc = "loop_top"
    /\ FALSE \in A_RunningSeen
    /\ a_pc' = "exited"
    /\ UNCHANGED <<now, alert_config, latest_metrics_, alert_states_, a_running,
                   a_ctl_pc, a_start, a_snapshot, a_idx, events, last_bad_push,
                   last_bad_eval>>

\* AlertManager::EvaluationLoop (lines 106-134) up to its return
EvaluationLoopToExit == EvaluationLoop \/ A_LoopExit

AlertNext ==
    \/ /\ EvaluateMetric \/ AlertStart \/ EvaluationLoop
       /\ UNCHANGED <<pubVars, backoffVars, storeVars, storeExtVars>>
    \/ /\ Tick
       /\ UNCHANGED <<pubVars, backoffVars, alertVars, storeVars, storeExtVars>>

\* the evaluator thread has a step to take: it is not asleep inside
\* sleep_for (EvaluationLoop line 131)
EvaluatorDue ==
    \/ a_pc = "loop_top"
    \/ /\ a_pc = "check"
       /\ \/ a_idx <= Len(alert_config.rules)
          \/ now - a_start >= alert_config.check_interval * TicksPerSecond

\* the clock as the timed evaluator sees it: one pass over the rules
\* (EvaluationLoop lines 110-125) takes less than a tick, and sleep_for
\* returns within the tick in which the check interval ends
TickPunctual == Tick /\ ~EvaluatorDue

AlertLiveNext ==
    \/ /\ EvaluateMetric \/ AlertStart \/ EvaluationLoop
       /\ UNCHANGED <<pubVars, backoffVars, storeVars, storeExtVars>>
    \/ /\ TickPunctual
       /\ UNCHANGED <<pubVars, backoffVars, alertVars, storeVars, storeExtVars>>

\* Scheduling: the evaluator thread, once started, is given every step it
\* can take, and the clock advances.
AlertFairness ==
    /\ WF_vars(EvaluationLoop /\ UNCHANGED <<pubVars, backoffVars, storeVars,
                                              storeExtVars>>)
    /\ WF_vars(TickPunctual /\ UNCHANGED <<pubVars, backoffVars, alertVars,
                                            storeVars, storeExtVars>>)

\* a constructed alert manager that is never used
AlertIdle == AlertInitWith({DefaultAlertConfig})

----------------------------------------------------------------------------
(* AlertManager: notification handlers *)

\* NotificationHandler::GetType of the handlers that get registered
HandlerTypes == {"log", "webhook"}

\* AlertRule::notification_channels as handed to SendNotifications: names
\* of registered and unregistered handlers, in both orders and repeated
NotifyChannelLists ==
    { <<>>, <<"webhook", "log">>, <<"log", "webhook">>, <<"log", "log">>,
      <<"email", "log">> }

\* two rules on Metric whose hold is zero; the second notifies "log"
TwoRuleConfig(channels) ==
    [check_interval |-> 1, cooldown |-> 2, enabled |-> TRUE,
     rules |-> << [name |-> "rule1", metric |-> Metric, condition |-> "ABOVE",
                   threshold |-> Threshold("ABOVE"), duration_seconds |-> 0,
                   notification_channels |-> channels],
                  [name |-> "rule2", metric |-> Metric, condition |-> "ABOVE",
                   threshold |-> Threshold("ABOVE"), duration_seconds |-> 0,
                   notification_channels |-> <<"log">>] >>]

NotifyConfigs == {TwoRuleConfig(l) : l \in NotifyChannelLists}

\* an alert manager with its rules, before any handler is registered; each
\* handler type either always succeeds or always fails in Send
NotifyInit ==
    /\ AlertLoaded(NotifyConfigs)
    /\ notification_handlers_ = {}
    /\ n_fails \in SUBSET HandlerTypes
    /\ n_file = <<>>

\* AlertManager::RegisterNotificationHandler (lines 86-90), called before
\* Start as in daemon/main.cpp lines 76-81
RegisterNotificationHandler ==
    /\ a_pc = "off"
    /\ \E type \in HandlerTypes :
          notification_handlers_' = notification_handlers_ \cup {type}
    /\ UNCHANGED <<now, alertVars, n_fails, n_sent, n_file>>

----------------------------------------------------------------------------
(* AlertConfig::LoadFromFile *)

\* a line of the configuration file that is neither empty nor a comment:
\* the number of leading spaces, the trimmed text before the first ':' (""
\* when the line has none), the trimmed text after it, and the number that
\* std::stoi or std::stod reads at the start of that text
Line(indent, key, value, num) ==
    [indent |-> indent, key |-> key, value |-> value, num |-> num]

\* AlertConfig::ParseCondition (lines 9-14)
ParseCondition(str) ==
    CASE str = "above"  -> "ABOVE"
      [] str = "below"  -> "BELOW"
      [] str = "equals" -> "EQUALS"
      [] OTHER          -> "ABOVE"

\* LoadFromFile lines 115-120: the rule a "- name:" line starts; a
\* default-constructed AlertRule has an empty notification_channels
NewRule(name) ==
    [name |-> name, metric |-> "", condition |-> "ABOVE", threshold |-> 0,
     duration_seconds |-> 0, notification_channels |-> <<>>]

\* LoadFromFile lines 66-73: the defaults and the locals before the first
\* line is read
LoadStart ==
    [check_interval |-> 5, cooldown |-> 300, enabled |-> TRUE,
     current_section |-> "", current_rule |-> NewRule(""), in_rule |-> FALSE,
     system_alerts_ |-> <<>>, process_alerts_ |-> <<>>]

SectionHeaders == {"global", "alerts", "notifications", "process_alerts"}

\* LoadFromFile lines 107-114: the rule that was being read is stored
PushRule(st) ==
    IF st.in_rule /\ st.current_rule.name # ""
    THEN IF st.current_section = "process_alerts"
         THEN [st EXCEPT !.process_alerts_ = Append(@, st.current_rule)]
         ELSE [st EXCEPT !.system_alerts_ = Append(@, st.current_rule)]
    ELSE st

\* LoadFromFile lines 129-147: a "key: value" line
LoadKeyValue(st, line) ==
    IF st.current_section = "global"
    THEN CASE line.key = "check_interval" -> [st EXCEPT !.check_interval = line.num]
           [] line.key = "cooldown"       -> [st EXCEPT !.cooldown = line.num]
           [] line.key = "enabled"        -> [st EXCEPT !.enabled = (line.value = "true")]
           [] OTHER                       -> st
    ELSE IF st.in_rule /\ st.current_section \in {"alerts", "process_alerts"}
    THEN CASE line.key = "metric" ->
                [st EXCEPT !.current_rule.metric = line.value]
           [] line.key = "condition" ->
                [st EXCEPT !.current_rule.condition = ParseCondition(line.value)]
           [] line.key = "threshold" ->
                [st EXCEPT !.current_rule.threshold = line.num]
           [] line.key = "duration" ->
                [st EXCEPT !.current_rule.duration_seconds = line.num]
           [] OTHER -> st
    ELSE st

\* LoadFromFile lines 75-148: the body of the loop over the lines
LoadLine(st, line) ==
    IF line.indent = 0 /\ line.key \in SectionHeaders
    THEN [st EXCEPT !.current_section = line.key]
    ELSE IF line.key = "- name"
    THEN [PushRule(st) EXCEPT !.current_rule = NewRule(line.value),
                              !.in_rule = TRUE]
    ELSE IF line.key # ""
    THEN LoadKeyValue(st, line)
    ELSE st

RECURSIVE LoadLines(_, _)
LoadLines(st, lines) ==
    IF lines = <<>> THEN st ELSE LoadLines(LoadLine(st, Head(lines)), Tail(lines))

\* AlertConfig::LoadFromFile (lines 58-161) on a file that opens: the last
\* rule goes to system_alerts_, as its is_process_alert is still false at
\* line 152
LoadFromFile(file) ==
    LET read == LoadLines(LoadStart, file)
        st == IF read.in_rule /\ read.current_rule.name # ""
              THEN [read EXCEPT !.system_alerts_ = Append(@, read.current_rule)]
              ELSE read
    IN  [check_interval |-> st.check_interval, cooldown |-> st.cooldown,
         enabled |-> st.enabled, rules |-> st.system_alerts_]

\* the lines of a rule in the form of tests/test_alert_manager.cpp lines
\* 351-361, with one "- type:" line per notification channel
RuleLines(name, channels) ==
    << Line(2, "- name", name, 0),
       Line(4, "metric", Metric, 0),
       Line(4, "condition", "greater_than", 0),
       Line(4, "threshold", "80.0", 80 * ValueScale),
       Line(4, "duration", "0s", 0),
       Line(4, "severity", "warning", 0),
       Line(4, "notifications", "", 0) >>
      \o [i \in 1..Len(channels) |-> Line(6, "- type", channels[i], 0)]

GlobalLines ==
    << Line(0, "global", "", 0),
       Line(2, "check_interval", "1", 1),
       Line(2, "cooldown", "2", 2) >>

\* the configuration files read: one rule or two, after a global section
AlertFiles ==
    { GlobalLines \o << Line(0, "alerts", "", 0) >> \o RuleLines("rule1", l)
        : l \in { <<"log">>, <<"webhook", "log">> } }
      \cup { GlobalLines \o << Line(0, "alerts", "", 0) >>
               \o RuleLines("rule1", <<"log">>) \o RuleLines("rule2", <<"webhook">>) }

\* the configuration of a default-constructed AlertManager; none of its
\* fields is read before LoadConfig
NotLoaded == [check_interval |-> 0, cooldown |-> 0, enabled |-> FALSE, rules |-> <<>>]

Loaded == n_file # <<>>

\* AlertManager::AlertManager
LoadInit ==
    /\ AlertLoaded({NotLoaded})
    /\ notification_handlers_ = {}
    /\ n_fails = {}
    /\ n_file = <<>>

\* AlertManager::LoadConfig (lines 36-38), called once before Start
LoadConfig ==
    /\ ~Loaded
    /\ \E file \in AlertFiles :
          LET config == LoadFromFile(file)
              names == {config.rules[i].name : i \in 1..Len(config.rules)}
          IN  /\ n_file' = file
              /\ alert_config' = config
              /\ alert_states_' = [n \in names |-> NoInstance]
              /\ last_bad_push' = [n \in names |-> Never]
              /\ last_bad_eval' = [n \in names |-> Never]
    /\ UNCHANGED <<now, latest_metrics_, a_running, a_ctl_pc, a_pc, a_start,
                   a_snapshot, a_idx, events, notification_handlers_, n_fails,
                   n_sent>>

NotifyNext ==
    \/ /\ RegisterNotificationHandler
       /\ UNCHANGED <<pubVars, backoffVars, storeVars, extCoreVars>>
    \/ /\ EvaluateMetric \/ AlertStart \/ A_LoopTop \/ A_Sleep
       /\ UNCHANGED <<pubVars, backoffVars, storeVars, extCoreVars, notifyVars>>
    \/ /\ A_CheckRule
       /\ UNCHANGED <<pubVars, backoffVars, storeVars, extCoreVars,
                      notification_handlers_, n_fails, n_file>>
    \/ /\ TickUpTo(NotifyMaxTime)
       /\ UNCHANGED <<pubVars, backoffVars, alertVars, storeVars, storeExtVars>>

LoadNext ==
    \/ /\ LoadConfig
       /\ UNCHANGED <<pubVars, backoffVars, storeVars, extCoreVars>>
    \/ /\ ~Loaded
       /\ RegisterNotificationHandler
       /\ UNCHANGED <<pubVars, backoffVars, storeVars, extCoreVars>>
    \/ /\ Loaded
       /\ NotifyNext

----------------------------------------------------------------------------
(* AlertManager: properties *)

\* the rule the evaluation loop is about to check
CurrentRule == alert_config.rules[a_idx]

\* this step is a call of CheckAlert (EvaluationLoop line 123)
IsCheckAlertStep ==
    /\ a_pc = "check"
    /\ a_idx <= Len(alert_config.rules)
    /\ a_idx' = a_idx + 1
    /\ a_snapshot # NoValue

\* this step is a call of CheckAlert that calls FireAlert
IsFireStep == IsCheckAlertStep /\ Len(events') = Len(events) + 1

\* the state of a rule's instance; a rule never checked has no instance yet
\* and gets a NORMAL one at its first check
StateOf(instance) == IF instance = NoInstance THEN "NORMAL" ELSE instance.state

\* the comparator as the rule table gives it
Satisfies(rule, value) ==
    \/ rule.condition = "ABOVE" /\ value > rule.threshold
    \/ rule.condition = "BELOW" /\ value < rule.threshold
    \/ rule.condition = "EQUALS" /\ Abs(value - rule.threshold) < ValueScale \div 1000

HoldTicks(rule) == rule.duration_seconds * TicksPerSecond

\* The original wording of C4, in ticks: a fire event at tick t is emitted
\* only if no value pushed by EvaluateMetric inside the window [t - H, t]
\* failed the comparator.  A push at a tick p > t - H that precedes the
\* fire step lies inside the window whatever the sub-tick times are.
C4_Original_EveryPushedValue ==
    [][IsFireStep =>
          ~(last_bad_push[CurrentRule.name] > now - HoldTicks(CurrentRule))]_vars

\* C4 (amended): a fire event at time t is emitted only if every value the
\* evaluation loop evaluated for the rule during [t - H, t] satisfied the
\* comparator: the breach being fired began at breach_start <= t - H, and
\* no non-satisfying value was evaluated for the rule since it began (an
\* evaluation of such a value in the tick of breach_start precedes it).
C4_FireOnlyAfterUninterruptedHold ==
    [][IsFireStep =>
          LET breach_start == alert_states_[CurrentRule.name].breach_start IN
            /\ breach_start <= now - HoldTicks(CurrentRule)
            /\ last_bad_eval[CurrentRule.name] <= breach_start]_vars

\* C4 witness: a rule with the largest hold has fired after an earlier
\* evaluation of a non-satisfying value
C4_Witness ==
    /\ Len(events) >= 1
    /\ alert_config.rules[1].duration_seconds = MaxHold
    /\ last_bad_eval["rule1"] # Never
    /\ alert_states_["rule1"].state = "FIRING"

\* C5: the NORMAL and BREACHED rows of the rule table.  From NORMAL a
\* satisfying value gives BREACHED with breach_start = now and no event, any
\* other value leaves NORMAL; from BREACHED a satisfying value gives BREACHED
\* without an event while now - breach_start < hold, and FIRING with exactly
\* one event and last_fired = now once now - breach_start >= hold; a
\* non-satisfying value gives NORMAL.
C5_Step ==
    IsCheckAlertStep =>
        LET rule == CurrentRule
            pre == alert_states_[rule.name]
            post == alert_states_'[rule.name]
            sat == Satisfies(rule, a_snapshot)
            emitted == Len(events') - Len(events)
        IN  /\ (StateOf(pre) = "NORMAL" /\ sat) =>
                  /\ post.state = "BREACHED"
                  /\ post.breach_start = now
                  /\ emitted = 0
            /\ (StateOf(pre) = "NORMAL" /\ ~sat) =>
                  /\ post.state = "NORMAL"
                  /\ emitted = 0
            /\ (StateOf(pre) = "BREACHED" /\ sat
                    /\ now - pre.breach_start < HoldTicks(rule)) =>
                  /\ post.state = "BREACHED"
                  /\ post.breach_start = pre.breach_start
                  /\ emitted = 0
            /\ (StateOf(pre) = "BREACHED" /\ sat
                    /\ now - pre.breach_start >= HoldTicks(rule)) =>
                  /\ post.state = "FIRING"
                  /\ post.last_fired = now
                  /\ emitted = 1
                  /\ events'[Len(events')].alert_name = rule.name
                  /\ events'[Len(events')].timestamp = now
            /\ (StateOf(pre) = "BREACHED" /\ ~sat) =>
                  /\ post.state = "NORMAL"
                  /\ emitted = 0

C6_FiringToNormalIgnoresCooldown ==
    [][(/\ IsCheckAlertStep
        /\ StateOf(alert_states_[CurrentRule.name]) = "FIRING"
        /\ ~Satisfies(CurrentRule, a_snapshot))
          => alert_states_'[CurrentRule.name].state = "NORMAL"]_vars

\* the rule explored (every configuration has one rule)
TheRule == alert_config.rules[1]

\* the first evaluation of the rule took place at t = 0 and every evaluation
\* so far was of a value that satisfies the rule
BreachedSinceZero ==
    /\ alert_states_[TheRule.name] # NoInstance
    /\ alert_states_[TheRule.name].breach_start = 0
    /\ last_bad_eval[TheRule.name] = Never

\* C18: a rule with hold H whose metric has a satisfying value at every
\* second from t = 0 and is evaluated at every second emits exactly one fire
\* event, at t = H, and none at an earlier evaluation.
C18_OneEventAtHold ==
    [][BreachedSinceZero' =>
         /\ Len(events') <= 1
         /\ \A i \in 1..Len(events') : events'[i].timestamp >= HoldTicks(TheRule)
         /\ (IsCheckAlertStep /\ now = HoldTicks(TheRule)) =>
                /\ Len(events') = 1
                /\ events'[1].timestamp = HoldTicks(TheRule)]_vars

\* C19: a rule with hold = 0 fires in the evaluation in which its breach is
\* first seen: one evaluation of a satisfying value takes the rule from
\* NORMAL to FIRING and emits the event.
C19_ZeroHoldFiresAtOnce ==
    [][(/\ IsCheckAlertStep
        /\ CurrentRule.duration_seconds = 0
        /\ StateOf(alert_states_[CurrentRule.name]) = "NORMAL"
        /\ Satisfies(CurrentRule, a_snapshot))
          => /\ alert_states_'[CurrentRule.name].state = "FIRING"
             /\ Len(events') = Len(events) + 1]_vars

\* C7: any two fire events of a rule are at least the global cooldown apart.
C7_EventsCooldownApart ==
    \A i \in 1..Len(events) : \A j \in (i + 1)..Len(events) :
        events[i].alert_name = events[j].alert_name =>
            events[j].timestamp - events[i].timestamp
                >= alert_config.cooldown * TicksPerSecond

\* C7 witness: with a cooldown of two seconds or more a rule has fired,
\* returned to NORMAL, breached again and fired a second time
C7_Witness ==
    /\ alert_config.cooldown >= 2
    /\ Len(events) >= 2
    /\ events[1].alert_name = events[2].alert_name

\* the value in the latest-values map satisfies the rule
LatestSatisfies(rule) ==
    latest_metrics_ # NoValue /\ Satisfies(rule, latest_metrics_)

\* a newer observation that does not satisfy the rule has replaced it
Overwritten(rule) ==
    latest_metrics_ # NoValue /\ ~Satisfies(rule, latest_metrics_)

\* the evaluator thread is inside EvaluationLoop
EvaluatorRunning == a_running /\ a_pc \in {"loop_top", "check"}

\* ticks after which a satisfying observation has fired at the latest: one
\* check interval until the pass that finds the breach, then the passes
\* until the hold has elapsed (at least one)
TicksToFire(rule) ==
    LET interval == alert_config.check_interval * TicksPerSecond
        passes == IF rule.duration_seconds <= alert_config.check_interval
                  THEN 1
                  ELSE (rule.duration_seconds + alert_config.check_interval - 1)
                          \div alert_config.check_interval
    IN  interval + passes * interval

\* the clock of the model does not end before the rule can fire
ClockAllows(rule) == now + TicksToFire(rule) <= MaxTime

\* the rule is FIRING and its event has been emitted
HasFired(rule) ==
    /\ StateOf(alert_states_[rule.name]) = "FIRING"
    /\ \E i \in 1..Len(events) :
          /\ events[i].alert_name = rule.name
          /\ events[i].timestamp = alert_states_[rule.name].last_fired

\* C39: an observation stays in the latest-values map until a newer value of
\* the metric overwrites it (no step of the evaluator changes the map), so a
\* satisfying observation that nothing replaces is evaluated again at every
\* check interval: with the evaluator running the rule reaches FIRING with
\* its event emitted, and while it stays FIRING no second event follows.
C39_StaleObservationEventuallyFires ==
    /\ [][(a_pc' # a_pc \/ a_idx' # a_idx) =>
              latest_metrics_' = latest_metrics_]_vars
    /\ (LatestSatisfies(TheRule) /\ EvaluatorRunning /\ ClockAllows(TheRule))
           ~> (HasFired(TheRule) \/ Overwritten(TheRule))
    /\ [][StateOf(alert_states_[TheRule.name]) = "FIRING" =>
              events' = events]_vars

\* C39 witness: one observation was made, at time 0 and before the evaluator
\* took its first snapshot; the rule with a hold of MaxHold seconds has
\* fired on it and was evaluated again after that without a second event
C39_Witness ==
    /\ TheRule.duration_seconds = MaxHold
    /\ latest_metrics_ # NoValue
    /\ last_bad_push[TheRule.name] = Never
    /\ HasFired(TheRule)
    /\ alert_states_[TheRule.name].breach_start = 0
    /\ Len(events) = 1
    /\ now > alert_states_[TheRule.name].last_fired
    /\ a_start = now
    /\ a_pc = "check" /\ a_idx > Len(alert_config.rules)

\* the alert instances that exist: the entries of alert_states_
Instances == {n \in RuleNames : alert_states_[n] # NoInstance}

\* last_fired of the rule is the time of one of its fire events
LastFiredSet(n) ==
    \E i \in 1..Len(events) :
        /\ events[i].alert_name = n
        /\ events[i].timestamp = alert_states_[n].last_fired

\* C40: no rule ever enters the COOLDOWN state: after any sequence of
\* observations and evaluations every alert instance is in NORMAL, BREACHED
\* or FIRING, and last_fired is set (to the time of the rule's latest fire
\* event) whenever the state is FIRING.
C40_NeverCooldown ==
    \A n \in Instances :
        /\ alert_states_[n].state \in {"NORMAL", "BREACHED", "FIRING"}
        /\ alert_states_[n].state = "FIRING" =>
              /\ LastFiredSet(n)
              /\ \A i \in 1..Len(events) :
                    events[i].alert_name = n =>
                        events[i].timestamp <= alert_states_[n].last_fired

\* C40 witness: a rule that fired after time 0 has just been evaluated with
\* its cooldown elapsed, and is FIRING
C40_Witness ==
    /\ alert_config.cooldown >= 2
    /\ alert_states_[TheRule.name].state = "FIRING"
    /\ alert_states_[TheRule.name].last_fired > 0
    /\ now - alert_states_[TheRule.name].last_fired
          >= alert_config.cooldown * TicksPerSecond
    /\ a_pc = "check" /\ a_idx > Len(alert_config.rules)
    /\ a_start = now

\* the Send calls made for the i-th event
SentFor(i) == SelectSeq(n_sent, LAMBDA c : c.event = events[i])

\* the types of a sequence of Send calls
TypesOf(calls) == [k \in 1..Len(calls) |-> calls[k].type]

\* the rule an event was built for
RuleOf(event) ==
    CHOOSE r \in Range(alert_config.rules) : r.name = event.alert_name

IsRegistered(channel_name) == channel_name \in notification_handlers_

\* for every event, Send has been called once for each entry of the rule's
\* channel list that names a registered handler, in list order, whatever
\* the calls returned, and the rule's instance was moved to FIRING
C31_SendsFollowList ==
    \A i \in 1..Len(events) :
        /\ TypesOf(SentFor(i))
              = SelectSeq(RuleOf(events[i]).notification_channels, IsRegistered)
        /\ \A k \in 1..Len(SentFor(i)) :
              SentFor(i)[k].success = (SentFor(i)[k].type \notin n_fails)

\* a step of CheckAlert that fires leaves the rule in FIRING and the rule
\* loop at the next rule
C31_FireStep ==
    IsFireStep =>
        /\ alert_states_'[CurrentRule.name].state = "FIRING"
        /\ a_pc' = "check"
        /\ a_idx' = a_idx + 1

\* C31: when a rule fires, Send is called exactly once on each registered
\* sink named in the rule's channel list, in list order; a sink that
\* returns failure does not stop the remaining sinks from being called, does
\* not prevent the rule from entering FIRING or the loop from evaluating the
\* remaining rules, and is not called again for that event.
C31_FailedSinkStopsNothing == []C31_SendsFollowList /\ [][C31_FireStep]_vars

\* rule1 has fired with a failing handler named before a working one: both
\* were called, rule1 is FIRING and rule2 has been evaluated after it
C31_Witness ==
    /\ Len(events) >= 2
    /\ events[1].alert_name = "rule1"
    /\ events[2].alert_name = "rule2"
    /\ alert_states_["rule1"].state = "FIRING"
    /\ Len(SentFor(1)) = 2
    /\ ~SentFor(1)[1].success
    /\ SentFor(1)[2].success
    /\ Len(SentFor(2)) = 1

\* the lines of the file that belong to the rule called name: from its
\* "- name:" line up to the next one
BlockOf(file, name) ==
    LET first == CHOOSE i \in 1..Len(file) :
                    file[i].key = "- name" /\ file[i].value = name
        later == {j \in (first + 1)..Len(file) : file[j].key = "- name"}
        last  == IF later = {} THEN Len(file)
                 ELSE (CHOOSE j \in later : \A k \in later : j <= k) - 1
    IN  SubSeq(file, first, last)

IsTypeLine(line) == line.key = "- type"

\* the channel types listed under the notifications key of the rule
NotificationsListed(file, name) ==
    LET lines == SelectSeq(BlockOf(file, name), IsTypeLine)
    IN  [k \in 1..Len(lines) |-> lines[k].value]

\* C32: after LoadConfig, each rule's notification channel list contains
\* the channel types listed under that rule's notifications key, so that
\* when the rule fires the handler registered under such a type receives
\* the event (with the rule's name, metric and the observed value).
C32_ListedHandlersReceiveEvent ==
    Loaded =>
        /\ \A i \in 1..Len(alert_config.rules) :
              Range(NotificationsListed(n_file, alert_config.rules[i].name))
                  \subseteq Range(alert_config.rules[i].notification_channels)
        /\ \A i \in 1..Len(events) :
              \A type \in Range(NotificationsListed(n_file, events[i].alert_name))
                            \cap notification_handlers_ :
                  \E c \in Range(n_sent) :
                      /\ c.type = type
                      /\ c.event.alert_name = events[i].alert_name
                      /\ c.event.metric = RuleOf(events[i]).metric
                      /\ c.event.current_value = events[i].current_value

\* the second half of C32 alone: every event has reached the registered
\* handlers that the file lists for its rule
C32_EventsReachListedHandlers ==
    \A i \in 1..Len(events) :
        \A type \in Range(NotificationsListed(n_file, events[i].alert_name))
                      \cap notification_handlers_ :
            \E c \in Range(n_sent) : c.type = type /\ c.event = events[i]

\* AlertManager::GetAlertStates (lines 98-104)
GetAlertStates ==
    [n \in {m \in RuleNames : alert_states_[m] # NoInstance} |->
        alert_states_[n].state]

\* C33: after LoadConfig with at least one alert rule and Start,
\* GetAlertStates returns an entry for every loaded rule (state NORMAL), also
\* before any value of the rule's metric has been observed.
C33_StatesForEveryRule ==
    (Loaded /\ alert_config.rules # <<>> /\ a_running) =>
        /\ DOMAIN GetAlertStates = RuleNames
        /\ latest_metrics_ = NoValue =>
              \A n \in RuleNames : GetAlertStates[n] = "NORMAL"

\* once every rule has been evaluated on an observed value, GetAlertStates
\* has an entry for every rule
C33_EntriesAfterEvaluation ==
    (Loaded /\ a_pc = "check" /\ a_idx > Len(alert_config.rules)
        /\ a_snapshot # NoValue) => DOMAIN GetAlertStates = RuleNames

----------------------------------------------------------------------------
(* MetricsCollector: Start, Stop and CollectionLoop *)

\* the threads that may call Start and Stop
Callers == {"k1", "k2"}

\* the collection threads a behaviour may construct, in order of construction
LoopIds == 1..MaxSpawns

\* the probes UpdateMetrics samples when no storage is attached
\* (lines 72-73; line 83 skips the disk and network probes)
Probes == {"cpu", "memory"}

NoTick == [failed |-> {}, sampled |-> {}, called |-> {}]

\* MetricsCollector::MetricsCollector() (lines 6-11): no storage, not
\* running, no collection thread; Start and Stop are called by the given
\* threads
SchedInitWith(callers) ==
    /\ c_running = FALSE
    /\ c_callers \in callers
    /\ c_call_pc = [k \in Callers |-> "idle"]
    /\ c_new = [k \in Callers |-> 0]
    /\ c_thread = 0
    /\ c_loop = [i \in LoopIds |-> "unborn"]
    /\ c_spawned = 0
    /\ c_aborted = FALSE
    /\ c_metrics_mutex_ = 0
    /\ c_latest = 0
    /\ c_tick = [i \in LoopIds |-> NoTick]

\* one calling thread, or two
SchedInit == SchedInitWith({{"k1"}, {"k1", "k2"}})

\* a constructed collector that is never used
SchedIdle == SchedInitWith({{}})

\* Start calls that have not constructed their thread yet
StartsPending ==
    Cardinality({k \in Callers :
                    c_call_pc[k] \in {"start_check", "start_store", "start_spawn"}})

\* a thread calls Start (line 24)
CS_Call(k) ==
    /\ c_call_pc[k] = "idle"
    /\ c_spawned + StartsPending < MaxSpawns
    /\ c_call_pc' = [c_call_pc EXCEPT ![k] = "start_check"]
    /\ UNCHANGED <<c_running, c_callers, c_new, c_thread, c_loop, c_spawned,
                   c_aborted, c_metrics_mutex_, c_latest, c_tick>>

\* variant of CS_Check that goes on when the collector is running
CS_Check_Always(k) ==
    /\ c_call_pc[k] = "start_check"
    /\ c_call_pc' = [c_call_pc EXCEPT ![k] = "start_store"]
    /\ UNCHANGED <<c_running, c_callers, c_new, c_thread, c_loop, c_spawned,
                   c_aborted, c_metrics_mutex_, c_latest, c_tick>>

\* Start lines 25-27: if (running_.load()) return
CS_Check(k) ==
    /\ c_call_pc[k] = "start_check"
    /\ c_call_pc' = [c_call_pc EXCEPT ![k] =
                        IF c_running THEN "idle" ELSE "start_store"]
    /\ UNCHANGED <<c_running, c_callers, c_new, c_thread, c_loop, c_spawned,
                   c_aborted, c_metrics_mutex_, c_latest, c_tick>>

\* Start lines 29-30: interval_ms_ = interval_ms; running_.store(true)
CS_Store(k) ==
    /\ c_call_pc[k] = "start_store"
    /\ c_running' = TRUE
    /\ c_call_pc' = [c_call_pc EXCEPT ![k] = "start_spawn"]
    /\ UNCHANGED <<c_callers, c_new, c_thread, c_loop, c_spawned, c_aborted,
                   c_metrics_mutex_, c_latest, c_tick>>

\* Start line 32, right-hand side: std::thread(&CollectionLoop, this) starts
\* a new thread
CS_Spawn(k) ==
    /\ c_call_pc[k] = "start_spawn"
    /\ c_spawned' = c_spawned + 1
    /\ c_new' = [c_new EXCEPT ![k] = c_spawned + 1]
    /\ c_loop' = [c_loop EXCEPT ![c_spawned + 1] = "loop_top"]
    /\ c_call_pc' = [c_call_pc EXCEPT ![k] = "start_assign"]
    /\ UNCHANGED <<c_running, c_callers, c_thread, c_aborted,
                   c_metrics_mutex_, c_latest, c_tick>>

\* Start line 32, move assignment to collection_thread_: std::terminate if
\* collection_thread_ is still joinable
CS_Assign(k) ==
    /\ c_call_pc[k] = "start_assign"
    /\ IF c_thread # 0
       THEN /\ c_aborted' = TRUE
            /\ UNCHANGED <<c_thread, c_call_pc>>
       ELSE /\ c_thread' = c_new[k]
            /\ c_call_pc' = [c_call_pc EXCEPT ![k] = "idle"]
            /\ UNCHANGED c_aborted
    /\ UNCHANGED <<c_running, c_callers, c_new, c_loop, c_spawned,
                   c_metrics_mutex_, c_latest, c_tick>>

\* a thread calls Stop (line 35)
CP_Call(k) ==
    /\ c_call_pc[k] = "idle"
    /\ c_call_pc' = [c_call_pc EXCEPT ![k] = "stop_check"]
    /\ UNCHANGED <<c_running, c_callers, c_new, c_thread, c_loop, c_spawned,
                   c_aborted, c_metrics_mutex_, c_latest, c_tick>>

\* Stop lines 36-38: if (!running_.load()) return
CP_Check(k) ==
    /\ c_call_pc[k] = "stop_check"
    /\ c_call_pc' = [c_call_pc EXCEPT ![k] =
                        IF ~c_running THEN "idle" ELSE "stop_store"]
    /\ UNCHANGED <<c_running, c_callers, c_new, c_thread, c_loop, c_spawned,
                   c_aborted, c_metrics_mutex_, c_latest, c_tick>>

\* Stop line 40: running_.store(false)
CP_Store(k) ==
    /\ c_call_pc[k] = "stop_store"
    /\ c_running' = FALSE
    /\ c_call_pc' = [c_call_pc EXCEPT ![k] = "stop_join"]
    /\ UNCHANGED <<c_callers, c_new, c_thread, c_loop, c_spawned, c_aborted,
                   c_metrics_mutex_, c_latest, c_tick>>

\* Stop lines 42-44: join() returns once the thread that collection_thread_
\* owns has left CollectionLoop
CP_Join(k) ==
    /\ c_call_pc[k] = "stop_join"
    /\ IF c_thread = 0
       THEN UNCHANGED <<c_thread, c_loop>>
       ELSE /\ c_loop[c_thread] = "exited"
            /\ c_loop' = [c_loop EXCEPT ![c_thread] = "joined"]
            /\ c_thread' = 0
    /\ c_call_pc' = [c_call_pc EXCEPT ![k] = "idle"]
    /\ UNCHANGED <<c_running, c_callers, c_new, c_spawned, c_aborted,
                   c_metrics_mutex_, c_latest, c_tick>>

\* CollectionLoop lines 48-52: loop condition, call of UpdateMetrics
L_LoopTop(i) ==
    /\ c_loop[i] = "loop_top"
    /\ IF c_running
       THEN /\ c_loop' = [c_loop EXCEPT ![i] = "probe_cpu"]
            /\ c_tick' = [c_tick EXCEPT ![i] = NoTick]
       ELSE /\ c_loop' = [c_loop EXCEPT ![i] = "exited"]
            /\ UNCHANGED c_tick
    /\ UNCHANGED <<c_running, c_callers, c_call_pc, c_new, c_thread,
                   c_spawned, c_aborted, c_metrics_mutex_, c_latest>>

\* a probe call of UpdateMetrics made at position pc: it returns a snapshot
\* and UpdateMetrics goes on at position next, or it throws and the
\* exception leaves UpdateMetrics for the handler of CollectionLoop
\* (lines 53-55)
L_Probe(i, pc, probe, next) ==
    /\ c_loop[i] = pc
    /\ \E ok \in BOOLEAN :
         IF ok
         THEN /\ c_loop' = [c_loop EXCEPT ![i] = next]
              /\ c_tick' = [c_tick EXCEPT ![i].sampled = @ \cup {probe}]
         ELSE /\ c_loop' = [c_loop EXCEPT ![i] = "sleep"]
              /\ c_tick' = [c_tick EXCEPT ![i].failed = @ \cup {probe}]
    /\ UNCHANGED <<c_running, c_callers, c_call_pc, c_new, c_thread,
                   c_spawned, c_aborted, c_metrics_mutex_, c_latest>>

\* UpdateMetrics line 72: GetCPUMetrics
L_ProbeCPU(i) == L_Probe(i, "probe_cpu", "cpu", "probe_mem")

\* UpdateMetrics line 73: GetMemoryMetrics
L_ProbeMemory(i) == L_Probe(i, "probe_mem", "memory", "lock_latest")

\* UpdateMetrics line 77: lock metrics_mutex_
L_LockLatest(i) ==
    /\ c_loop[i] = "lock_latest"
    /\ c_metrics_mutex_ = 0
    /\ c_metrics_mutex_' = i
    /\ c_loop' = [c_loop EXCEPT ![i] = "store_latest"]
    /\ UNCHANGED <<c_running, c_callers, c_call_pc, c_new, c_thread,
                   c_spawned, c_aborted, c_latest, c_tick>>

\* UpdateMetrics lines 78-83: latest_cpu_ and latest_memory_ take the
\* snapshots of this thread, the lock is released; storage_ is null
L_StoreLatest(i) ==
    /\ c_loop[i] = "store_latest"
    /\ c_latest' = i
    /\ c_metrics_mutex_' = 0
    /\ c_loop' = [c_loop EXCEPT ![i] = "callbacks"]
    /\ UNCHANGED <<c_running, c_callers, c_call_pc, c_new, c_thread,
                   c_spawned, c_aborted, c_tick>>

\* UpdateMetrics lines 100-106: every registered callback is called with the
\* two snapshots; what a callback throws is caught
L_Callbacks(i) ==
    /\ c_loop[i] = "callbacks"
    /\ c_tick' = [c_tick EXCEPT ![i].called = Probes]
    /\ c_loop' = [c_loop EXCEPT ![i] = "sleep"]
    /\ UNCHANGED <<c_running, c_callers, c_call_pc, c_new, c_thread,
                   c_spawned, c_aborted, c_metrics_mutex_, c_latest>>

\* CollectionLoop lines 57-67: sleep for the rest of the interval
L_Sleep(i) ==
    /\ c_loop[i] = "sleep"
    /\ c_loop' = [c_loop EXCEPT ![i] = "loop_top"]
    /\ UNCHANGED <<c_running, c_callers, c_call_pc, c_new, c_thread,
                   c_spawned, c_aborted, c_metrics_mutex_, c_latest, c_tick>>

\* MetricsCollector::Start (lines 24-33)
CollectorStart(k) ==
    CS_Call(k) \/ CS_Check(k) \/ CS_Store(k) \/ CS_Spawn(k) \/ CS_Assign(k)

\* MetricsCollector::Stop (lines 35-45)
CollectorStop(k) == CP_Call(k) \/ CP_Check(k) \/ CP_Store(k) \/ CP_Join(k)

\* MetricsCollector::UpdateMetrics (lines 70-107) without storage
UpdateMetricsSteps(i) ==
    \/ L_ProbeCPU(i) \/ L_ProbeMemory(i) \/ L_LockLatest(i)
    \/ L_StoreLatest(i) \/ L_Callbacks(i)

\* MetricsCollector::CollectionLoop (lines 47-68)
CollectionLoop(i) == L_LoopTop(i) \/ UpdateMetricsSteps(i) \/ L_Sleep(i)

\* nothing runs after std::terminate
SchedNext ==
    /\ ~c_aborted
    /\ \/ \E k \in c_callers : CollectorStart(k) \/ CollectorStop(k)
       \/ \E i \in LoopIds : CollectionLoop(i)
    /\ UNCHANGED <<pubVars, backoffVars, now, alertVars, storeVars, concVars,
                   retentionVars, collectorVars, lifeVars, s_failed, notifyVars, rollupVars, g_pc>>

----------------------------------------------------------------------------
(* Start and Stop on each worker *)

\* The three worker objects share no state, so a behaviour of all three is an
\* interleaving of one behaviour of each; a behaviour here exercises one.
LifeWorkers == {"publisher", "evaluator", "scheduler"}

NoCall == [op |-> "none", was_running |-> FALSE, returned |-> TRUE,
           joined |-> FALSE, seq |-> 0]

\* no lifecycle call is observed
LifeIdle ==
    /\ life_worker = "none"
    /\ ctl_log = NoCall

\* the call op is made on a worker whose running flag is was_running; it
\* returns in the same step unless it has to join
LogCall(op, was_running) ==
    ctl_log' = [op |-> op, was_running |-> was_running,
                returned |-> (op = "Start" \/ ~was_running),
                joined |-> ctl_log.joined, seq |-> 1 - ctl_log.seq]

\* the join of the Stop in progress returns
LogJoined == ctl_log' = [ctl_log EXCEPT !.returned = TRUE, !.joined = TRUE]

\* evaluator configuration of the lifecycle behaviours (alerting enabled)
LifeAlertConfigs == {OneRuleConfig("ABOVE", 0, MaxCooldown)}

PublisherLife ==
    /\ life_worker = "publisher"
    /\ \/ Start /\ LogCall("Start", running_)
       \/ Stop /\ LogCall("Stop", running_)
       \/ StopJoined /\ LogJoined
       \/ (QueueMetric \/ PublishLoop) /\ UNCHANGED ctl_log
    /\ UNCHANGED <<backoffVars, now, alertVars, storeVars, concVars,
                   retentionVars, collectorVars, schedVars, life_worker,
                   s_failed, notifyVars, rollupVars, g_pc>>

EvaluatorLife ==
    /\ life_worker = "evaluator"
    /\ \/ /\ \/ AlertStart /\ LogCall("Start", a_running)
             \/ AlertStop /\ LogCall("Stop", a_running)
             \/ AlertStopJoined /\ LogJoined
             \/ (EvaluateMetric \/ EvaluationLoopToExit) /\ UNCHANGED ctl_log
          /\ UNCHANGED <<pubVars, backoffVars, storeVars, concVars,
                         retentionVars, collectorVars, schedVars, life_worker,
                         s_failed, notifyVars, rollupVars, g_pc>>
       \/ /\ TickUpTo(LifeMaxTime)
          /\ UNCHANGED <<pubVars, backoffVars, alertVars, storeVars,
                         storeExtVars>>

SchedulerLife == life_worker = "scheduler" /\ SchedNext

LifecycleNext == PublisherLife \/ EvaluatorLife \/ SchedulerLife

----------------------------------------------------------------------------
(* Start and Stop: properties *)

\* the step makes a Start or Stop call on the publisher or the evaluator
Called == ctl_log'.seq # ctl_log.seq
\* the step returns from such a call
Returned == ctl_log'.returned /\ (Called \/ ~ctl_log.returned)

\* the contract of Start and Stop in terms of a worker's running flag, the
\* position of its loop thread and its whole state
LifeContract(running, running_after, pc_after, state_unchanged) ==
    /\ (Called /\ ctl_log'.op = "Start" /\ running) => state_unchanged
    /\ (Called /\ ctl_log'.op = "Stop" /\ ~running) => state_unchanged
    /\ (Called /\ ctl_log'.op = "Start" /\ ~running) => pc_after = "loop_top"
    /\ (Returned /\ ctl_log'.op = "Start") => running_after
    /\ (Returned /\ ctl_log'.op = "Stop") => ~running_after /\ pc_after = "off"

\* the step is taken by calling thread k of the collector
StepOf(k) == c_call_pc'[k] # c_call_pc[k]

\* the contract for the collector when thread k makes every call
SchedContract(k) ==
    /\ ~c_aborted'
    /\ (StepOf(k) /\ c_call_pc[k] = "start_check" /\ c_running)
          => /\ c_call_pc'[k] = "idle"
             /\ UNCHANGED <<c_running, c_new, c_thread, c_loop, c_spawned,
                            c_metrics_mutex_, c_latest, c_tick>>
    /\ (StepOf(k) /\ c_call_pc[k] = "stop_check" /\ ~c_running)
          => /\ c_call_pc'[k] = "idle"
             /\ UNCHANGED <<c_running, c_new, c_thread, c_loop, c_spawned,
                            c_metrics_mutex_, c_latest, c_tick>>
    /\ (StepOf(k) /\ c_call_pc[k] = "start_check" /\ ~c_running)
          => c_call_pc'[k] = "start_store"
    /\ (StepOf(k) /\ c_call_pc[k] \in {"start_check", "start_assign"}
                  /\ c_call_pc'[k] = "idle")
          => /\ c_running'
             /\ c_thread' # 0 /\ c_loop'[c_thread'] \notin {"unborn", "joined"}
    /\ (StepOf(k) /\ c_call_pc[k] \in {"stop_check", "stop_join"}
                  /\ c_call_pc'[k] = "idle")
          => /\ ~c_running'
             /\ \A i \in LoopIds : c_loop'[i] \in {"unborn", "joined"}

C21_Step ==
    /\ life_worker = "publisher" =>
          LifeContract(running_, running_', w_pc', UNCHANGED pubVars)
    /\ life_worker = "evaluator" =>
          LifeContract(a_running, a_running', a_pc', UNCHANGED alertVars)
    /\ (life_worker = "scheduler" /\ c_callers = {"k1"}) => SchedContract("k1")

\* C21: for the collector, the publisher and the evaluator with alerting
\* enabled, when one thread issues the Start and Stop calls: a Start on a
\* running worker and a Stop on a stopped one return without changing any
\* state of the worker; a Start on a stopped worker launches the loop, also
\* after an earlier Stop; the running flag is true when Start returns and
\* false when Stop returns; and when Stop returns no loop thread is left.
C21_StartStopContract == [][C21_Step]_vars

\* a collector restarted after a Stop that joined the first thread, with the
\* second thread inside the loop and the second Start returned
C21_Witness ==
    /\ life_worker = "scheduler" /\ c_callers = {"k1"}
    /\ c_call_pc["k1"] = "idle" /\ c_running
    /\ c_loop[1] = "joined" /\ c_thread = 2 /\ c_loop[2] = "probe_mem"

\* the same case on the publisher and on the evaluator: a Start on the
\* running worker, made after a Stop that joined and a second launch
PublisherRestarted ==
    /\ life_worker = "publisher" /\ ctl_log.joined
    /\ ctl_log.op = "Start" /\ ctl_log.was_running /\ w_pc = "sending"

EvaluatorRestarted ==
    /\ life_worker = "evaluator" /\ ctl_log.joined
    /\ ctl_log.op = "Start" /\ ctl_log.was_running /\ a_pc = "check"

\* the collection threads that are inside CollectionLoop
LiveLoops == {i \in LoopIds : c_loop[i] \notin {"unborn", "exited", "joined"}}

\* the collection threads that are inside UpdateMetrics
InUpdateMetrics ==
    {i \in LoopIds : c_loop[i] \in {"probe_cpu", "probe_mem", "lock_latest",
                                     "store_latest", "callbacks"}}

\* C22: whatever threads call Start and Stop on the collector and however
\* their calls interleave, at most one collection thread is inside
\* CollectionLoop and at most one execution of UpdateMetrics is under way.
C22_OneTickInFlight ==
    /\ Cardinality(LiveLoops) <= 1
    /\ Cardinality(InUpdateMetrics) <= 1

\* the same, for calls that all come from one thread
C22_OneTickInFlightOneCaller ==
    Cardinality(c_callers) = 1 => C22_OneTickInFlight

\* C23: when UpdateMetrics is over and a probe has thrown in it, every other
\* probe has been sampled in the same UpdateMetrics and its snapshot has
\* been handed to the callbacks.
C23_OtherProbesStillRun ==
    \A i \in LoopIds :
        (c_loop[i] = "sleep" /\ c_tick[i].failed # {}) =>
            \A p \in Probes \ c_tick[i].failed :
                p \in c_tick[i].sampled /\ p \in c_tick[i].called

C30_Step ==
    (life_worker = "evaluator" /\ Returned /\ ctl_log'.op = "Stop"
                               /\ ctl_log'.was_running)
        => latest_metrics_' = NoValue

\* C30: when a Stop that stopped a running evaluator returns, the
\* latest-values map is empty, so that the loop of a later Start finds no
\* value for any rule until EvaluateMetric is called again.
C30_StopDiscardsObservations == [][C30_Step]_vars

----------------------------------------------------------------------------
(* MetricsStorage *)

\* metrics_storage.hpp line 186
MAX_BUFFER_SIZE == 10000

\* GetCurrentTimestamp (lines 42-46) and GetCurrentTimeMs (lines 49-53)
GetCurrentTimestamp == now \div TicksPerSecond
GetCurrentTimeMs == now * (1000 \div TicksPerSecond)

Hostname == "host"
StoreMetrics == {"cpu.total_usage", "memory.used_bytes"}
StoreValues == {1, 2}

\* StoredMetric (metrics_storage.hpp lines 19-25)
StoredMetric(ts, type, value) ==
    [timestamp |-> ts, metric_type |-> type, host |-> Hostname, tags |-> "",
     value |-> value]

\* PRIMARY KEY (timestamp, metric_type, host, tags)  (line 29)
Identity(row) == <<row.timestamp, row.metric_type, row.host, row.tags>>

\* the last element of batch b whose identity is id, searched from index i down
RECURSIVE LastWithIdentity(_, _, _)
LastWithIdentity(b, id, i) ==
    IF Identity(b[i]) = id THEN b[i] ELSE LastWithIdentity(b, id, i - 1)

\* FlushBatch lines 307-320 with every sqlite3_step succeeding: the rows of
\* the table after the batch has been inserted in order with INSERT OR
\* REPLACE (lines 141-144), each identity keeping its last point
InsertBatch(rows, b) ==
    LET ids == {Identity(b[i]) : i \in 1..Len(b)} IN
      {r \in rows : Identity(r) \notin ids}
          \cup {LastWithIdentity(b, id, Len(b)) : id \in ids}

\* StorageConfig values explored (metrics_storage.hpp lines 34-35)
StoreConfigs == { [batch_size |-> 2, flush_interval_ms |-> 5000],
                  [batch_size |-> 3, flush_interval_ms |-> 1000] }

\* StorageConfig defaults
DefaultStoreConfig == [batch_size |-> 100, flush_interval_ms |-> 5000]

NoTxn == [open |-> FALSE, rows |-> {}]
\* no rollup pass has run
NoPass == [width |-> 0, cutoff_ts |-> 0, at |-> 0, read |-> {}]

\* no thread is inside Flush and no query has run
StoreExtInit ==
    /\ fb_pc = "idle"
    /\ q_uncommitted = FALSE
    /\ r_days = 0
    /\ r_ret = 0
    /\ r_pc = "idle"
    /\ r_cutoff = 0
    /\ r_deleted = 0
    /\ s_failed = FALSE
    /\ g_pc = "idle"
    /\ metrics_1m = {}
    /\ metrics_1h = {}
    /\ ru_pass = NoPass
    /\ c_pc = "idle"
    /\ c_cur = {}
    /\ c_done = {}

\* MetricsStorage::MetricsStorage (lines 67-99) on an empty database
StoreInitWith(configs) ==
    /\ StoreExtInit
    /\ store_config \in configs
    /\ batch_ = <<>>
    /\ last_flush_time_ms_ = GetCurrentTimeMs
    /\ db_committed = {}
    /\ db_txn = NoTxn
    /\ s_op = "none"
    /\ s_ret = "none"
    /\ s_writes = 0
    /\ written = {}

StoreInit == StoreInitWith(StoreConfigs)

\* a constructed store that is never used
StoreIdle == StoreInitWith({DefaultStoreConfig})

\* the batch of a store whose flushes have failed until MAX_BUFFER_SIZE -
\* CapHeadroom points were waiting: points of both metrics, written at tick 0
CapBatch == [i \in 1..(MAX_BUFFER_SIZE - CapHeadroom) |->
                StoredMetric(0, IF i % 2 = 1 THEN "cpu.total_usage"
                                ELSE "memory.used_bytes", 1)]

\* a store that has accepted CapBatch and committed nothing yet, with
\* CapHeadroom + 1 writes still to come
StoreInitCap ==
    /\ StoreExtInit
    /\ store_config \in StoreConfigs
    /\ batch_ = CapBatch
    /\ last_flush_time_ms_ = GetCurrentTimeMs
    /\ db_committed = {}
    /\ db_txn = NoTxn
    /\ s_op = "AddToBatch"
    /\ s_ret = "false"
    /\ s_writes = MaxWrites - (CapHeadroom + 1)
    /\ written = Range(CapBatch)

\* the rows the handle's connection reads: inside an open transaction its own
\* uncommitted rows, otherwise the committed ones
View == IF db_txn.open THEN db_txn.rows ELSE db_committed

\* What the database does with the statements of one FlushBatch:
\*   ok            - every statement succeeds
\*   begin_error   - BEGIN TRANSACTION fails
\*   insert_error  - a sqlite3_step of the insert fails
\*   commit_error  - COMMIT fails and SQLite has rolled the transaction back
\*   commit_busy   - COMMIT fails with SQLITE_BUSY; SQLite leaves the
\*                   transaction open for a retry
\* BEGIN TRANSACTION always fails inside a transaction that is still open.
FlushOutcomes == {"ok", "begin_error", "insert_error", "commit_error", "commit_busy"}

\* MetricsStorage::FlushBatch (lines 290-340) on batch b (batch_mutex_ held by
\* the caller): the result and the batch, database and flush time afterwards
FlushBatch(b, outcome) ==
    IF b = <<>>
    THEN \* line 293
         [ret |-> TRUE, batch |-> b, committed |-> db_committed, txn |-> db_txn,
          last_flush |-> last_flush_time_ms_]
    ELSE IF db_txn.open \/ outcome = "begin_error"
    THEN \* lines 299-303
         [ret |-> FALSE, batch |-> b, committed |-> db_committed, txn |-> db_txn,
          last_flush |-> last_flush_time_ms_]
    ELSE IF outcome = "insert_error"
    THEN \* lines 316-319, 330: ROLLBACK
         [ret |-> FALSE, batch |-> b, committed |-> db_committed, txn |-> NoTxn,
          last_flush |-> last_flush_time_ms_]
    ELSE IF outcome = "commit_error"
    THEN \* lines 324-328, transaction rolled back by SQLite
         [ret |-> FALSE, batch |-> b, committed |-> db_committed, txn |-> NoTxn,
          last_flush |-> last_flush_time_ms_]
    ELSE IF outcome = "commit_busy"
    THEN \* lines 324-328, no ROLLBACK is issued: the transaction stays open
         [ret |-> FALSE, batch |-> b, committed |-> db_committed,
          txn |-> [open |-> TRUE, rows |-> InsertBatch(db_committed, b)],
          last_flush |-> last_flush_time_ms_]
    ELSE \* lines 324, 334-337
         [ret |-> TRUE, batch |-> <<>>,
          committed |-> InsertBatch(db_committed, b), txn |-> NoTxn,
          last_flush |-> GetCurrentTimeMs]

\* off-by-one variant of the buffer test
BufferFull_OffByOne(b) == Len(b) > MAX_BUFFER_SIZE

\* AddToBatch line 268
BufferFull(b) == Len(b) >= MAX_BUFFER_SIZE

\* AddToBatch lines 275-276
ShouldFlush(b) ==
    \/ Len(b) >= store_config.batch_size
    \/ GetCurrentTimeMs - last_flush_time_ms_ >= store_config.flush_interval_ms

BoolStr(x) == IF x THEN "true" ELSE "false"

\* MetricsStorage::AddToBatch (lines 264-283), called by a Write* operation
\* with a point of one of the given metric types stamped GetCurrentTimestamp()
AddToBatchOf(types) ==
    /\ s_writes < MaxWrites
    /\ s_writes' = s_writes + 1
    /\ s_op' = "AddToBatch"
    /\ \E type \in types, value \in StoreValues, outcome \in FlushOutcomes :
         LET metric == StoredMetric(GetCurrentTimestamp, type, value) IN
           IF BufferFull(batch_)
           THEN /\ s_ret' = "false"
                /\ UNCHANGED <<batch_, last_flush_time_ms_, db_committed, db_txn,
                               written>>
           ELSE LET pushed == Append(batch_, metric) IN
                  /\ written' = {w \in written : Identity(w) # Identity(metric)}
                                    \cup {metric}
                  /\ IF ShouldFlush(pushed)
                     THEN LET f == FlushBatch(pushed, outcome) IN
                            /\ s_ret' = BoolStr(f.ret)
                            /\ batch_' = f.batch
                            /\ db_committed' = f.committed
                            /\ db_txn' = f.txn
                            /\ last_flush_time_ms_' = f.last_flush
                     ELSE /\ s_ret' = "true"
                          /\ batch_' = pushed
                          /\ UNCHANGED <<last_flush_time_ms_, db_committed, db_txn>>
    /\ UNCHANGED <<now, store_config>>

\* AddToBatch called with a point of any metric type
AddToBatch == AddToBatchOf(StoreMetrics)

\* MetricsStorage::Flush (lines 285-288)
Flush ==
    /\ s_op' = "Flush"
    /\ \E outcome \in FlushOutcomes :
         LET f == FlushBatch(batch_, outcome) IN
           /\ s_ret' = BoolStr(f.ret)
           /\ batch_' = f.batch
           /\ db_committed' = f.committed
           /\ db_txn' = f.txn
           /\ last_flush_time_ms_' = f.last_flush
    /\ UNCHANGED <<now, store_config, s_writes, written>>

\* rows as a sequence ordered by timestamp, newest first (ORDER BY timestamp DESC)
RECURSIVE OrderByTimestampDesc(_)
OrderByTimestampDesc(rows) ==
    IF rows = {} THEN <<>>
    ELSE LET first == CHOOSE r \in rows : \A o \in rows : o.timestamp <= r.timestamp
         IN  <<first>> \o OrderByTimestampDesc(rows \ {first})

\* variant of QueryRange with an exclusive end of the range
QueryRange_ExclusiveEnd(metric_type, start_ts, end_ts, limit) ==
    LET all == OrderByTimestampDesc(
                   {r \in View : /\ r.metric_type = metric_type
                                 /\ r.timestamp >= start_ts
                                 /\ r.timestamp < end_ts})
    IN  IF limit > 0 THEN Take(all, Min(limit, Len(all))) ELSE all

\* MetricsStorage::QueryRange (lines 342-387)
QueryRange(metric_type, start_ts, end_ts, limit) ==
    LET all == OrderByTimestampDesc(
                   {r \in View : /\ r.metric_type = metric_type
                                 /\ r.timestamp >= start_ts
                                 /\ r.timestamp <= end_ts})
    IN  IF limit > 0 THEN Take(all, Min(limit, Len(all))) ELSE all

StoreNext ==
    \/ /\ AddToBatch \/ Flush
       /\ UNCHANGED <<pubVars, backoffVars, alertVars, storeExtVars>>
    \/ /\ TickUpTo(StoreMaxTime)
       /\ UNCHANGED <<pubVars, backoffVars, alertVars, storeVars, storeExtVars>>

\* the store's operations at one instant of the clock
StoreCapNext ==
    (AddToBatch \/ Flush) /\ UNCHANGED <<pubVars, backoffVars, alertVars, storeExtVars>>

\* the store's operations over a clock that runs past the flush interval,
\* with a record of whether any of them has returned false
StoreTimedNext ==
    \/ /\ AddToBatch \/ Flush
       /\ s_failed' = (s_failed \/ s_ret' = "false")
       /\ UNCHANGED <<pubVars, backoffVars, alertVars, concVars, retentionVars,
                      collectorVars, schedVars, lifeVars, notifyVars, rollupVars, g_pc>>
    \/ /\ TickUpTo(TimedMaxTime)
       /\ UNCHANGED <<pubVars, backoffVars, alertVars, storeVars, storeExtVars>>

----------------------------------------------------------------------------
(* MetricsStorage: Flush in steps, beside QueryRange on the same handle *)

\* Flush lines 285-287 and FlushBatch lines 293-303: batch_mutex_ is taken
\* (fb_pc leaves "idle") and BEGIN TRANSACTION is executed
FB_Begin ==
    /\ fb_pc = "idle"
    /\ s_op' = "Flush"
    /\ IF batch_ = <<>>
       THEN /\ s_ret' = "true"
            /\ UNCHANGED <<db_txn, fb_pc>>
       ELSE \E begin_ok \in BOOLEAN :
              IF db_txn.open \/ ~begin_ok
              THEN /\ s_ret' = "false"
                   /\ UNCHANGED <<db_txn, fb_pc>>
              ELSE /\ db_txn' = [open |-> TRUE, rows |-> db_committed]
                   /\ fb_pc' = "inserting"
                   /\ s_ret' = "none"
    /\ UNCHANGED <<now, store_config, batch_, last_flush_time_ms_, db_committed,
                   s_writes, written, q_uncommitted, retentionVars,
                   collectorVars, schedVars, lifeVars, s_failed, notifyVars, rollupVars, g_pc>>

\* FlushBatch lines 307-320 and 330: the insert loop, and ROLLBACK when a
\* sqlite3_step fails
FB_Insert ==
    /\ fb_pc = "inserting"
    /\ \E insert_ok \in BOOLEAN :
         IF insert_ok
         THEN /\ db_txn' = [open |-> TRUE,
                            rows |-> InsertBatch(db_committed, batch_)]
              /\ fb_pc' = "committing"
              /\ UNCHANGED s_ret
         ELSE /\ db_txn' = NoTxn
              /\ fb_pc' = "idle"
              /\ s_ret' = "false"
    /\ UNCHANGED <<now, store_config, batch_, last_flush_time_ms_, db_committed,
                   s_op, s_writes, written, q_uncommitted, retentionVars,
                   collectorVars, schedVars, lifeVars, s_failed, notifyVars, rollupVars, g_pc>>

\* FlushBatch lines 323-340: COMMIT, then the batch is cleared on success;
\* batch_mutex_ is released on return
FB_Commit ==
    /\ fb_pc = "committing"
    /\ fb_pc' = "idle"
    /\ \E outcome \in {"ok", "commit_error", "commit_busy"} :
         IF outcome = "ok"
         THEN /\ db_committed' = db_txn.rows
              /\ db_txn' = NoTxn
              /\ batch_' = <<>>
              /\ last_flush_time_ms_' = GetCurrentTimeMs
              /\ s_ret' = "true"
         ELSE /\ db_txn' = IF outcome = "commit_busy" THEN db_txn ELSE NoTxn
              /\ s_ret' = "false"
              /\ UNCHANGED <<db_committed, batch_, last_flush_time_ms_>>
    /\ UNCHANGED <<now, store_config, s_op, s_writes, written, q_uncommitted,
                   retentionVars, collectorVars, schedVars, lifeVars, s_failed, notifyVars, rollupVars, g_pc>>

\* AddToBatch (lines 264-283) waits for batch_mutex_ while a Flush holds it
AddToBatchLocked == fb_pc = "idle" /\ AddToBatch /\ UNCHANGED storeExtVars

\* the timestamps a query range is drawn from
QueryTimes == 0..(StoreMaxTime \div TicksPerSecond + 1)

\* a reader thread calls QueryRange (lines 342-387) with limit 0; QueryRange
\* takes no lock and uses the handle's own connection db_
ReaderQueryRange ==
    /\ \E m \in StoreMetrics, t0 \in QueryTimes, t1 \in QueryTimes :
         q_uncommitted' = ~(Range(QueryRange(m, t0, t1, 0)) \subseteq db_committed)
    /\ UNCHANGED <<now, storeVars, fb_pc, retentionVars, collectorVars,
                   schedVars, lifeVars, s_failed, notifyVars, rollupVars, g_pc>>

StoreConcNext ==
    \/ /\ AddToBatchLocked \/ FB_Begin \/ FB_Insert \/ FB_Commit \/ ReaderQueryRange
       /\ UNCHANGED <<pubVars, backoffVars, alertVars>>
    \/ /\ TickUpTo(StoreMaxTime)
       /\ UNCHANGED <<pubVars, backoffVars, alertVars, storeVars, storeExtVars>>

----------------------------------------------------------------------------
(* MetricsCollector writing to the store *)

\* the identity MetricsStorage stamps on a point of the given type now
IdentityNow(type) == <<GetCurrentTimestamp, type, Hostname, "">>

\* MetricsCollector::UpdateMetrics line 95 and MetricsStorage::WriteCPUMetrics
\* (lines 160-180): the CPU points, here cpu.total_usage, stamped with the
\* GetCurrentTimestamp() of this call
WriteCPUMetrics ==
    /\ c_pc = "idle"
    /\ AddToBatchOf({"cpu.total_usage"})
    /\ c_pc' = "cpu_written"
    /\ c_cur' = {IdentityNow("cpu.total_usage")}
    /\ UNCHANGED <<c_done, concVars, retentionVars, schedVars, lifeVars,
                   s_failed, notifyVars, rollupVars, g_pc>>

\* MetricsCollector::UpdateMetrics line 96 and MetricsStorage::
\* WriteMemoryMetrics (lines 182-197): the memory points, here
\* memory.used_bytes, stamped with the GetCurrentTimestamp() of this call
WriteMemoryMetrics ==
    /\ c_pc = "cpu_written"
    /\ AddToBatchOf({"memory.used_bytes"})
    /\ c_pc' = "idle"
    /\ c_cur' = {}
    /\ c_done' = c_done \cup {c_cur \cup {IdentityNow("memory.used_bytes")}}
    /\ UNCHANGED <<concVars, retentionVars, schedVars, lifeVars, s_failed, notifyVars, rollupVars, g_pc>>

\* MetricsCollector::UpdateMetrics (lines 82-97)
UpdateMetrics == WriteCPUMetrics \/ WriteMemoryMetrics

CollectorNext ==
    \/ /\ UpdateMetrics
       /\ UNCHANGED <<pubVars, backoffVars, alertVars>>
    \/ /\ TickUpTo(StoreMaxTime)
       /\ UNCHANGED <<pubVars, backoffVars, alertVars, storeVars, storeExtVars>>

----------------------------------------------------------------------------
(* MetricsStorage: retention *)

\* ApplyRetention line 390
SECONDS_PER_DAY == 86400

\* retention_days values explored; retention_days * 86400 stays inside int
RetentionDays == {0, 1, MaxRetentionDays}

\* timestamps of the points earlier runs left in the database, relative to
\* the start of the clock: around each cutoff that the days explored give
OldTimestamps ==
    {0 - MaxRetentionDays * SECONDS_PER_DAY - 1,
     0 - MaxRetentionDays * SECONDS_PER_DAY,
     0 - SECONDS_PER_DAY, 0 - 1, 0, 1}

OldRows == {StoredMetric(ts, "cpu.total_usage", 1) : ts \in OldTimestamps}

\* a store opened on a database that earlier runs have filled
StoreInitRetention ==
    /\ StoreExtInit
    /\ store_config = DefaultStoreConfig
    /\ batch_ = <<>>
    /\ last_flush_time_ms_ = GetCurrentTimeMs
    /\ db_committed \in SUBSET OldRows
    /\ db_txn = NoTxn
    /\ s_op = "none"
    /\ s_ret = "none"
    /\ s_writes = 0
    /\ written = {}

\* variant of the DELETE condition that also removes rows at the cutoff
Expired_Inclusive(row, cutoff_ts) == row.timestamp <= cutoff_ts

\* WHERE timestamp < ?  (lines 394 and 407)
Expired(row, cutoff_ts) == row.timestamp < cutoff_ts

\* MetricsStorage::ApplyRetention (lines 389-419): SELECT COUNT(*) and DELETE
\* run on the handle's connection, inside its open transaction if it has one
ApplyRetention ==
    /\ s_op' = "ApplyRetention"
    /\ \E retention_days \in RetentionDays :
         LET cutoff_ts == GetCurrentTimestamp - retention_days * SECONDS_PER_DAY
             old == {r \in View : Expired(r, cutoff_ts)}
         IN  /\ r_days' = retention_days
             /\ r_ret' = Cardinality(old)
             /\ r_cutoff' = cutoff_ts
             /\ r_deleted' = Cardinality(old)
             /\ UNCHANGED r_pc
             /\ IF db_txn.open
                THEN /\ db_txn' = [db_txn EXCEPT !.rows = @ \ old]
                     /\ UNCHANGED db_committed
                ELSE /\ db_committed' = db_committed \ old
                     /\ UNCHANGED db_txn
    /\ UNCHANGED <<now, store_config, batch_, last_flush_time_ms_, s_ret,
                   s_writes, written, concVars, collectorVars, schedVars,
                   lifeVars, s_failed, notifyVars, rollupVars, g_pc>>

\* ApplyRetention lines 390-403: cutoff_ts, then SELECT COUNT(*) on the
\* handle's connection
R_Count ==
    /\ r_pc = "idle"
    /\ \E retention_days \in RetentionDays :
         LET cutoff_ts == GetCurrentTimestamp - retention_days * SECONDS_PER_DAY
         IN  /\ r_days' = retention_days
             /\ r_cutoff' = cutoff_ts
             /\ r_ret' = Cardinality({r \in View : Expired(r, cutoff_ts)})
    /\ r_pc' = "counted"
    /\ UNCHANGED <<now, storeVars, r_deleted, concVars, collectorVars,
                   schedVars, lifeVars, s_failed, notifyVars, rollupVars, g_pc>>

\* ApplyRetention lines 405-418: DELETE on the handle's connection, return
\* of the count taken before
R_Delete ==
    /\ r_pc = "counted"
    /\ r_pc' = "idle"
    /\ s_op' = "ApplyRetention"
    /\ LET old == {r \in View : Expired(r, r_cutoff)} IN
         /\ r_deleted' = Cardinality(old)
         /\ IF db_txn.open
            THEN /\ db_txn' = [db_txn EXCEPT !.rows = @ \ old]
                 /\ UNCHANGED db_committed
            ELSE /\ db_committed' = db_committed \ old
                 /\ UNCHANGED db_txn
    /\ UNCHANGED <<now, store_config, batch_, last_flush_time_ms_, s_ret,
                   s_writes, written, r_days, r_ret, r_cutoff, concVars,
                   collectorVars, schedVars, lifeVars, s_failed, notifyVars, rollupVars, g_pc>>

\* ApplyRetention in steps on one thread, beside a thread that writes and
\* flushes
StoreRetentionConcNext ==
    \/ /\ (AddToBatch \/ Flush) /\ UNCHANGED storeExtVars
       /\ UNCHANGED <<pubVars, backoffVars, alertVars>>
    \/ /\ R_Count \/ R_Delete
       /\ UNCHANGED <<pubVars, backoffVars, alertVars>>
    \/ /\ TickUpTo(StoreMaxTime)
       /\ UNCHANGED <<pubVars, backoffVars, alertVars, storeVars, storeExtVars>>

StoreRetentionNext ==
    \/ /\ ApplyRetention
       /\ UNCHANGED <<pubVars, backoffVars, alertVars>>
    \/ /\ TickUpTo(StoreMaxTime)
       /\ UNCHANGED <<pubVars, backoffVars, alertVars, storeVars, storeExtVars>>

----------------------------------------------------------------------------
(* RetentionManager: rollup *)

\* (timestamp / 60) * 60 and (timestamp / 3600) * 3600 (lines 29 and 60)
BucketOf(ts, width) == (ts \div width) * width

\* WHERE timestamp < ? AND timestamp >= ? - window (lines 35 and 66), both
\* parameters bound to cutoff_ts
InRollupWindow(row, cutoff_ts, window) ==
    row.timestamp < cutoff_ts /\ row.timestamp >= cutoff_ts - window

\* column value of a row is the fraction value / den; den is 1 in table
\* metrics
DenOf(row) == IF "den" \in DOMAIN row THEN row.den ELSE 1

\* the sum of the values of a set of rows, as a fraction <<n, d>>
RECURSIVE SumOfValues(_)
SumOfValues(rows) ==
    IF rows = {} THEN <<0, 1>>
    ELSE LET r == CHOOSE x \in rows : TRUE
             rest == SumOfValues(rows \ {r})
         IN  <<rest[1] * DenOf(r) + r.value * rest[2], rest[2] * DenOf(r)>>

\* SELECT ... AVG(value) ... GROUP BY bucket, metric_type, host, tags: one
\* row per group, whose value is the sum of the group over its size
RollupSelect(source, cutoff_ts, window, width) ==
    LET read == {r \in source : InRollupWindow(r, cutoff_ts, window)}
        groups == {<<BucketOf(r.timestamp, width), r.metric_type, r.host, r.tags>>
                      : r \in read}
        members(g) == {r \in read :
                         <<BucketOf(r.timestamp, width), r.metric_type, r.host,
                           r.tags>> = g}
    IN  { [timestamp |-> g[1], metric_type |-> g[2], host |-> g[3], tags |-> g[4],
           value |-> SumOfValues(members(g))[1],
           den |-> SumOfValues(members(g))[2] * Cardinality(members(g))]
          : g \in groups }

\* INSERT OR REPLACE INTO a table whose primary key is Identity
InsertOrReplace(table, rows) ==
    {r \in table : \A n \in rows : Identity(n) # Identity(r)} \cup rows

\* the cutoff_ts values the caller passes and the times of the clock
RollupCutoffs == {60, 90, 120, 3600}
RollupNows == {90, 119, 120, 150, 3700}
\* timestamps of the raw points earlier writes have committed
RollupTimes == {0, 59, 60, 89, 119}
RollupRows == {StoredMetric(ts, "cpu.total_usage", 1 + (ts % 2)) : ts \in RollupTimes}

\* RetentionManager::RollupToOneMinute (lines 25-49)
RollupToOneMinute ==
    \E cutoff_ts \in RollupCutoffs :
        /\ metrics_1m' = InsertOrReplace(metrics_1m,
                             RollupSelect(db_committed, cutoff_ts, SECONDS_PER_DAY, 60))
        /\ ru_pass' = [width |-> 60, cutoff_ts |-> cutoff_ts, at |-> GetCurrentTimestamp,
                       read |-> {r \in db_committed :
                                   InRollupWindow(r, cutoff_ts, SECONDS_PER_DAY)}]
        /\ UNCHANGED <<now, storeVars, metrics_1h>>

\* RetentionManager::RollupToOneHour (lines 56-80)
RollupToOneHour ==
    \E cutoff_ts \in RollupCutoffs :
        /\ metrics_1h' = InsertOrReplace(metrics_1h,
                             RollupSelect(metrics_1m, cutoff_ts, 30 * SECONDS_PER_DAY, 3600))
        /\ ru_pass' = [width |-> 3600, cutoff_ts |-> cutoff_ts, at |-> GetCurrentTimestamp,
                       read |-> {r \in metrics_1m :
                                   InRollupWindow(r, cutoff_ts, 30 * SECONDS_PER_DAY)}]
        /\ UNCHANGED <<now, storeVars, metrics_1m>>

\* a database that earlier writes have filled, opened at one of the times
\* of the clock
StoreInitRollup ==
    /\ StoreExtInit
    /\ store_config = DefaultStoreConfig
    /\ batch_ = <<>>
    /\ last_flush_time_ms_ = GetCurrentTimeMs
    /\ db_committed \in SUBSET {r \in RollupRows : r.timestamp <= GetCurrentTimestamp}
    /\ db_txn = NoTxn
    /\ s_op = "none"
    /\ s_ret = "none"
    /\ s_writes = 0
    /\ written = {}

\* the clock moves on to a later one of its times
RollupAdvance ==
    /\ \E t \in RollupNows : t > now /\ now' = t
    /\ UNCHANGED <<pubVars, backoffVars, alertVars, storeVars, storeExtVars>>

RollupNext ==
    \/ /\ RollupToOneMinute \/ RollupToOneHour
       /\ UNCHANGED <<pubVars, backoffVars, alertVars, concVars, retentionVars,
                      collectorVars, schedVars, lifeVars, s_failed, notifyVars,
                      g_pc>>
    \/ RollupAdvance

----------------------------------------------------------------------------
(* MetricsStorage properties *)

\* the publish thread is inside SendHTTPRequest (called at PublishBatch
\* line 184)
HttpInProgress == w_pc = "sending"

\* a thread is inside Flush and holds batch_mutex_ (Flush line 286)
BatchMutexHeld == fb_pc # "idle"

\* the handle's connection has a flush transaction open
FlushTransactionRuns == fb_pc \in {"inserting", "committing"}

\* C24: the publish thread holds neither queue_mutex_ nor stats_mutex_ while
\* the HTTP request is in progress, and batch_mutex_ is not held while the
\* database transaction of a flush runs.
C24_NoLockAcrossIO ==
    /\ HttpInProgress => (queue_mutex_ # Worker /\ stats_mutex_ # Worker)
    /\ FlushTransactionRuns => ~BatchMutexHeld

\* the store half of C24 on its own
C24_StoreHalf == FlushTransactionRuns => ~BatchMutexHeld

\* C25: no thread holds queue_mutex_ and stats_mutex_ of the publisher at
\* the same time, and a collection thread does not hold metrics_mutex_ while
\* it calls the callbacks.  (The collector's metrics_mutex_ and the store's
\* batch_mutex_ are never held together: L_StoreLatest releases the first
\* before any Write* call; EvaluationLoop releases the observations mutex
\* inside A_LoopTop, before CheckAlert can notify.)
C25_OneLockPerThread ==
    /\ \A t \in Producers \cup {Worker} :
           ~(queue_mutex_ = t /\ stats_mutex_ = t)
    /\ \A i \in LoopIds : c_loop[i] = "callbacks" => c_metrics_mutex_ # i

\* the step is a call of AddToBatch
IsWriteStep == s_writes' = s_writes + 1

C26_Step ==
    (IsWriteStep /\ Len(batch_) = MAX_BUFFER_SIZE) =>
        /\ s_ret' = "false"
        /\ batch_' = batch_
        /\ written' = written
        /\ UNCHANGED <<db_committed, db_txn, last_flush_time_ms_>>

\* C26: an AddToBatch call that finds MAX_BUFFER_SIZE points in the batch
\* returns false and leaves the batch as it was, point for point; it starts
\* no flush (the database, its transaction and the time of the last flush
\* stay as they were).
C26_FullBufferRefuses == [][C26_Step]_vars

\* the last write found the batch full and was refused
C26_Witness ==
    /\ s_op = "AddToBatch" /\ s_ret = "false"
    /\ s_writes = MaxWrites
    /\ Len(batch_) = MAX_BUFFER_SIZE
    /\ db_committed = {}

\* C27: when ApplyRetention has returned, the count it returned is the
\* number of rows its DELETE removed, whatever flushes other threads
\* committed while it ran.
C27_CountEqualsDeleted ==
    (r_pc = "idle" /\ s_op = "ApplyRetention") => r_ret = r_deleted

\* C28: as long as no write and no flush has failed, a point does not wait
\* in the batch for longer than flush_interval_ms after the last flush.
C28_FlushedWithinInterval ==
    (batch_ # <<>> /\ ~s_failed) =>
        GetCurrentTimeMs - last_flush_time_ms_ <= store_config.flush_interval_ms

\* the write step has put its point on the batch, where it waits or from
\* where it has been committed
PointAdded ==
    \/ Len(batch_') = Len(batch_) + 1
    \/ batch_' = <<>> /\ written' \subseteq db_committed'

C29_Step ==
    IsWriteStep =>
        /\ s_ret' = "true" => PointAdded
        /\ s_ret' = "false" => (~PointAdded /\ BufferFull(batch_))

\* C29: an AddToBatch call returns true only if it has put the point on the
\* batch (or flushed it), and returns false only if it found the buffer full
\* and left the batch without the point.
C29_TrueIffAdded == [][C29_Step]_vars

\* C34: a rollup pass never reads a partially-written bucket: every
\* 60-second (or 3600-second) bucket it aggregates lies entirely before the
\* cutoff, and the cutoff is strictly below the current wall-clock bucket.
C34_NoPartialBucket ==
    ru_pass.width # 0 =>
        /\ \A r \in ru_pass.read :
              BucketOf(r.timestamp, ru_pass.width) + ru_pass.width
                  <= ru_pass.cutoff_ts
        /\ ru_pass.cutoff_ts < BucketOf(ru_pass.at, ru_pass.width)

\* the first half of C34 alone, against the clock: every row a pass reads
\* lies in a bucket that ended before the current wall-clock bucket began
C34_ReadsClosedBucketsOnly ==
    \A r \in ru_pass.read :
        BucketOf(r.timestamp, ru_pass.width) + ru_pass.width
            <= BucketOf(ru_pass.at, ru_pass.width)

\* a pass whose cutoff is a bucket boundary not after the start of the
\* current wall-clock bucket reads whole, closed buckets only
C34_AlignedCutoffReadsWholeBuckets ==
    (/\ ru_pass.width # 0
     /\ ru_pass.cutoff_ts % ru_pass.width = 0
     /\ ru_pass.cutoff_ts <= BucketOf(ru_pass.at, ru_pass.width)) =>
        \A r \in ru_pass.read :
            BucketOf(r.timestamp, ru_pass.width) + ru_pass.width
                <= BucketOf(ru_pass.at, ru_pass.width)

\* C8: in every reachable state, whatever the interleaving of writes and of
\* succeeding or failing flushes, the batch holds at most MAX_BUFFER_SIZE
\* (10,000) points.
C8_BatchBounded == Len(batch_) <= MAX_BUFFER_SIZE

\* the batch is full and a further write has been refused
C8_Witness ==
    /\ Len(batch_) = MAX_BUFFER_SIZE
    /\ s_op = "AddToBatch"
    /\ s_ret = "false"
    /\ s_writes = MaxWrites

\* a step of Flush on a batch that holds points
IsFlushStep == s_op' = "Flush" /\ now' = now /\ batch_ # <<>>

\* C9: a flush empties the batch only when its transaction commits, and then
\* every point of the batch is committed; when an insert or the commit fails
\* the flush returns false, the batch keeps its points in order and no point
\* of the batch becomes visible to the store's queries.
C9_FlushAllOrNothing ==
    [][IsFlushStep =>
         \/ /\ s_ret' = "true"
            /\ batch_' = <<>>
            /\ ~db_txn'.open
            /\ \A i \in 1..Len(batch_) :
                 \E r \in db_committed' : Identity(r) = Identity(batch_[i])
         \/ /\ s_ret' = "false"
            /\ batch_' = batch_
            /\ View' = View]_vars

\* C11: under any interleaving of QueryRange with writes and flushes on one
\* handle, QueryRange returns only rows of committed transactions: no row of
\* the batch, of an open flush transaction or of one that is rolled back.
C11_QueryOnlyCommitted == ~q_uncommitted

\* a step of ApplyRetention
IsRetentionStep == s_op' = "ApplyRetention" /\ now' = now

C13_TickAtomic ==
    \A tick \in c_done :
        /\ \A a \in tick, b \in tick : a[1] = b[1]
        /\ LET committed == {Identity(r) : r \in db_committed} IN
             tick \subseteq committed \/ tick \cap committed = {}

\* the points written (accepted into the batch) of metric m with a timestamp
\* in [t0, t1], one per identity, carrying the identity's last written value
WrittenInRange(m, t0, t1) ==
    {w \in written : w.metric_type = m /\ t0 <= w.timestamp /\ w.timestamp <= t1}

----------------------------------------------------------------------------
(* Specifications *)

\* each specification runs one component; the other two stay as constructed
InitPub == PubInit /\ BackoffIdle /\ now = 0 /\ AlertIdle /\ StoreIdle /\ SchedIdle /\ LifeIdle
InitAlert == PubIdle /\ BackoffIdle /\ now = 0 /\ AlertInit /\ StoreIdle /\ SchedIdle /\ LifeIdle
InitStore == PubIdle /\ BackoffIdle /\ now = 0 /\ AlertIdle /\ StoreInit /\ SchedIdle /\ LifeIdle
InitStoreCap == PubIdle /\ BackoffIdle /\ now = 0 /\ AlertIdle /\ StoreInitCap /\ SchedIdle /\ LifeIdle

SpecPub == InitPub /\ [][PubNext]_vars

InitPubBacklog == PubInitBacklog /\ BackoffIdle /\ now = 0 /\ AlertIdle /\ StoreIdle /\ SchedIdle /\ LifeIdle

SpecPubBacklog == InitPubBacklog /\ [][PubNext]_vars

InitBackoff == PubIdle /\ BackoffInit /\ now = 0 /\ AlertIdle /\ StoreIdle /\ SchedIdle /\ LifeIdle

SpecBackoff == InitBackoff /\ [][BackoffNext]_vars

SpecPubBacklogLive == InitPubBacklog /\ [][PubNext]_vars /\ PubFairness

SpecAlert == InitAlert /\ [][AlertNext]_vars

SpecAlertLive == InitAlert /\ [][AlertLiveNext]_vars /\ AlertFairness

SpecStore == InitStore /\ [][StoreNext]_vars

SpecStoreCap == InitStoreCap /\ [][StoreCapNext]_vars

SpecStoreConc == InitStore /\ [][StoreConcNext]_vars

SpecCollector == InitStore /\ [][CollectorNext]_vars

InitRetention == PubIdle /\ BackoffIdle /\ now = 0 /\ AlertIdle /\ StoreInitRetention /\ SchedIdle /\ LifeIdle

SpecRetention == InitRetention /\ [][StoreRetentionNext]_vars

InitSched ==
    PubIdle /\ BackoffIdle /\ now = 0 /\ AlertIdle /\ StoreIdle /\ SchedInit /\ LifeIdle

SpecSched == InitSched /\ [][SchedNext]_vars
InitLifecycle ==
    /\ BackoffIdle /\ now = 0 /\ StoreIdle /\ ctl_log = NoCall
    /\ \/ life_worker = "publisher"
          /\ PubInitWith({LifePubConfig}) /\ AlertIdle /\ SchedIdle
       \/ life_worker = "evaluator"
          /\ PubIdle /\ AlertInitWith(LifeAlertConfigs) /\ SchedIdle
       \/ life_worker = "scheduler"
          /\ PubIdle /\ AlertIdle /\ SchedInit

SpecLifecycle == InitLifecycle /\ [][LifecycleNext]_vars
SpecRetentionConc == InitStore /\ [][StoreRetentionConcNext]_vars
SpecStoreTimed == InitStore /\ [][StoreTimedNext]_vars

InitNotify ==
    PubIdle /\ BackoffIdle /\ now = 0 /\ NotifyInit /\ StoreIdle /\ SchedIdle /\ LifeIdle

SpecNotify == InitNotify /\ [][NotifyNext]_vars

InitLoad ==
    PubIdle /\ BackoffIdle /\ now = 0 /\ LoadInit /\ StoreIdle /\ SchedIdle /\ LifeIdle

SpecLoad == InitLoad /\ [][LoadNext]_vars

InitPubLocks ==
    PubInitWith({LocksPubConfig}) /\ BackoffIdle /\ now = 0 /\ AlertIdle
        /\ StoreIdle /\ SchedIdle /\ LifeIdle

SpecPubLocks == InitPubLocks /\ [][PubLocksNext]_vars

InitPubLive ==
    PubInitWith({LivePubConfig}) /\ BackoffIdle /\ now = 0 /\ AlertIdle
        /\ StoreIdle /\ SchedIdle /\ LifeIdle

SpecPubLive == InitPubLive /\ [][PubNext]_vars /\ PubFairness

InitRollup ==
    PubIdle /\ BackoffIdle /\ now \in RollupNows /\ AlertIdle /\ StoreInitRollup
        /\ SchedIdle /\ LifeIdle

SpecRollup == InitRollup /\ [][RollupNext]_vars
====
